---- MODULE Spec2Model ----
(***************************************************************************)
(* Model of the decode-and-aggregate engine of web/app.js:                 *)
(* computeStatsFromCompressed, buildPlotsData, filterByBlockSize and the   *)
(* page-load / filter-change handlers that run them.                       *)
(*                                                                         *)
(* Representation choices                                                  *)
(*  - JavaScript numbers are modelled as exact rationals [n, d] (d > 0,    *)
(*    lowest terms); IEEE-754 rounding is not modelled.                    *)
(*  - A JavaScript string that is compared or concatenated is a tuple of   *)
(*    character codes; localeCompare is modelled as code-point             *)
(*    lexicographic order (the two agree on same-case ASCII letters).      *)
(*  - A value that may be undefined/null is a tuple of length <= 1:        *)
(*    <<>> is undefined/null, <<v>> is the value v.                        *)
(*  - A payload record is a TLA+ record with the default field names of    *)
(*    app.js:85-96 instead of a positional tuple read through indexMap.    *)
(*  - A thrown exception is the result [status |-> "raised"].              *)
(***************************************************************************)
EXTENDS Integers, Sequences, FiniteSets, TLC

VARIABLES experiments, stats, plots, minBlockSizeBytes, sizeFiltered, pc,
          call, ret,
          rangeMinT, rangeMaxT, trimEdges, averagingWindowSec, dragging,
          activeTab, view, blocksFilterKey, status, request, prepareTimer

vars ==
  <<experiments, stats, plots, minBlockSizeBytes, sizeFiltered, pc, call, ret,
    rangeMinT, rangeMaxT, trimEdges, averagingWindowSec, dragging, activeTab, view,
    blocksFilterKey, status, request, prepareTimer>>

\* The time window, the controls beside the size threshold, the handle being
\* dragged, the active chart tab, what the page shows and BLOCKS_FILTER_KEY.
windowVars == <<rangeMinT, rangeMaxT>>
controlVars == <<trimEdges, averagingWindowSec>>
pageVars ==
  <<rangeMinT, rangeMaxT, trimEdges, averagingWindowSec, dragging, activeTab, view,
    blocksFilterKey>>

\* The status overlay, the request for the server's payload and the interval
\* timer of fetchServerPayload.
loadVars == <<status, request, prepareTimer>>

\* call and ret: the arguments of a call that a test makes (of percentile,
\* aggregatePoints or computeAveragesForPair), and what the caller holds when
\* it returns.
testVars == <<call, ret>>

(***************************************************************************)
(* Bounds of the model.                                                    *)
(***************************************************************************)
\* Largest number of records in one payload (over all its block entries).
MaxRecs == 3
\* Largest number of experiments loaded together.
MaxExps == 2
\* Records of a payload whose blocks are filtered by size.
MaxFilterRecs == 4
\* Largest sample handed to percentile.
MaxSample == 3
\* Largest number of blocks of the experiment whose charts are drawn.
MaxChartBlocks == 3
\* Largest number of blocks of an experiment of the summary table.
MaxTableBlocks == 2
\* Largest number of blocks of an experiment of the page under every handler.
MaxPageBlocks == 1

(***************************************************************************)
(* Numbers.                                                                *)
(***************************************************************************)
Abs(x) == IF x < 0 THEN -x ELSE x

RECURSIVE GCD(_, _)
GCD(a, b) == IF b = 0 THEN a ELSE GCD(b, a % b)

\* The rational n/d in lowest terms with a positive denominator (d # 0).
RNorm(n, d) ==
  LET s == IF d < 0 THEN -1 ELSE 1
      g == GCD(Abs(n), Abs(d))
  IN  [n |-> (s * n) \div g, d |-> (s * d) \div g]

Num(i) == [n |-> i, d |-> 1]
RAdd(a, b) == RNorm(a.n * b.d + b.n * a.d, a.d * b.d)
RSub(a, b) == RNorm(a.n * b.d - b.n * a.d, a.d * b.d)
RMul(a, b) == RNorm(a.n * b.n, a.d * b.d)
RDiv(a, b) == RNorm(a.n * b.d, a.d * b.n)
RLt(a, b) == a.n * b.d < b.n * a.d
RLe(a, b) == a.n * b.d <= b.n * a.d
RFloor(a) == a.n \div a.d
RCeil(a) == -((-a.n) \div a.d)

RECURSIVE RSum(_)
RSum(s) == IF s = <<>> THEN Num(0) ELSE RAdd(Head(s), RSum(Tail(s)))

\* Math.min(...s) and Math.max(...s) of a non-empty list.
RECURSIVE RMin(_)
RMin(s) ==
  IF Len(s) = 1 THEN s[1]
  ELSE LET m == RMin(Tail(s)) IN IF RLt(m, Head(s)) THEN m ELSE Head(s)

RECURSIVE RMax(_)
RMax(s) ==
  IF Len(s) = 1 THEN s[1]
  ELSE LET m == RMax(Tail(s)) IN IF RLt(Head(s), m) THEN m ELSE Head(s)

(***************************************************************************)
(* Sequences.                                                              *)
(***************************************************************************)
RECURSIVE Flatten(_)
Flatten(ss) == IF ss = <<>> THEN <<>> ELSE Head(ss) \o Flatten(Tail(ss))

\* The pair x = <<key, item>> inserted into the list t, sorted by key, behind
\* every pair whose key is not greater: the step of a stable sort.
InsertKeyed(x, t) ==
  LET p == Cardinality({i \in 1..Len(t) : RLe(t[i][1], x[1])})
  IN  SubSeq(t, 1, p) \o <<x>> \o SubSeq(t, p + 1, Len(t))

\* Array.prototype.sort((a, b) => key(a) - key(b)) on <<key, item>> pairs:
\* ascending by key, equal keys in their original order.
RECURSIVE StableSortKeyed(_)
StableSortKeyed(s) ==
  IF s = <<>> THEN <<>>
  ELSE InsertKeyed(s[Len(s)], StableSortKeyed(SubSeq(s, 1, Len(s) - 1)))

\* The distinct elements of s in the order of their first occurrence.
RECURSIVE Distinct(_)
Distinct(s) ==
  IF s = <<>> THEN <<>>
  ELSE LET d == Distinct(SubSeq(s, 1, Len(s) - 1))
       IN  IF \E i \in 1..Len(d) : d[i] = s[Len(s)] THEN d ELSE Append(d, s[Len(s)])

Range(s) == {s[i] : i \in 1..Len(s)}

(***************************************************************************)
(* Strings (tuples of character codes).                                    *)
(***************************************************************************)
NoneStr == <<78, 111, 110, 101>>                                \* "None"
UndefinedStr == <<117, 110, 100, 101, 102, 105, 110, 101, 100>> \* "undefined"
Sep == <<95, 95>>                                               \* "__"

\* a < b in lexicographic order of the character codes.
RECURSIVE StrLt(_, _)
StrLt(a, b) ==
  IF b = <<>> THEN FALSE
  ELSE IF a = <<>> THEN TRUE
  ELSE IF Head(a) # Head(b) THEN Head(a) < Head(b)
  ELSE StrLt(Tail(a), Tail(b))

\* JavaScript truthiness of a possibly-undefined string: neither
\* undefined/null nor "".
Truthy(opt) == opt # <<>> /\ opt[1] # <<>>

\* x || dflt for a possibly-undefined string x.
OrElse(opt, dflt) == IF Truthy(opt) THEN opt[1] ELSE dflt

\* list[idx] of a JavaScript array (0-based); undefined out of range.
At(list, idx) == IF idx \in 0..(Len(list) - 1) THEN <<list[idx + 1]>> ELSE <<>>

(***************************************************************************)
(* percentile (app.js:59-69).                                              *)
(***************************************************************************)
Hundred == 100

SortNumbers(values) ==
  LET keyed == [i \in 1..Len(values) |-> <<values[i], values[i]>>]
      sorted == StableSortKeyed(keyed)
  IN  [i \in 1..Len(values) |-> sorted[i][2]]

\* Variant of percentile that ranks the values as they come, unsorted.
percentileUnsorted(values, p) ==
  IF Len(values) = 0 THEN Num(0)
  ELSE
    LET pos == RMul(RDiv(p, Num(Hundred)), Num(Len(values) - 1))
        lower == RFloor(pos)
        upper == RCeil(pos)
        weight == RSub(pos, Num(lower))
    IN  IF Len(values) = 1 THEN values[1]
        ELSE IF lower = upper THEN values[lower + 1]
        ELSE RAdd(RMul(values[lower + 1], RSub(Num(1), weight)),
                  RMul(values[upper + 1], weight))

\* Variant of percentile that takes the lower ranked element, without
\* interpolation.
percentileLowerRank(values, p) ==
  IF Len(values) = 0 THEN Num(0)
  ELSE LET sorted == SortNumbers(values)
       IN  sorted[RFloor(RMul(RDiv(p, Num(Hundred)), Num(Len(sorted) - 1))) + 1]

percentile(values, p) ==
  IF Len(values) = 0 THEN Num(0)
  ELSE
    LET sorted == SortNumbers(values)
        pos == RMul(RDiv(p, Num(Hundred)), Num(Len(sorted) - 1))
        lower == RFloor(pos)
        upper == RCeil(pos)
        weight == RSub(pos, Num(lower))
    IN  IF Len(sorted) = 1 THEN sorted[1]
        ELSE IF lower = upper THEN sorted[lower + 1]
        ELSE RAdd(RMul(sorted[lower + 1], RSub(Num(1), weight)),
                  RMul(sorted[upper + 1], weight))

\* The caller's array after the call: values.slice() sorts a copy
\* (app.js:61).
ValuesAfterPercentile(values) == values

(***************************************************************************)
(* computeStatsFromCompressed (app.js:84-310): the decode loop.            *)
(***************************************************************************)
Thousand == 1000
Million == 1000000

\* The early return of app.js:108-115: ts0 missing (null), unparseable
\* (Date.parse gives NaN) or blocks not an array.
FailsSoft(payload) == ~payload.blocksIsList \/ payload.ts0.kind # "valid"

\* The empty-stats result of app.js:110-114 and 191-195.
EmptyStats(payload, fallbackName) ==
  [status |-> "ok",
   experiment_name |-> OrElse(payload.experiment_name, OrElse(fallbackName, <<>>)),
   earliest_ts_global |-> <<>>,
   type_called_from_stats |-> <<>>,
   hasBlocks |-> FALSE,
   blocks |-> <<>>]

\* rec[recIdx.start_us] === undefined || rec[recIdx.duration_us] === undefined
\* (app.js:127-129). A scalar (a number) has no fields at all.
Skipped(rec) ==
  rec.kind = "scalar" \/ rec.start_us = <<>> \/ rec.duration_us = <<>>

\* Reading a field of null throws a TypeError: blockEntry[...] at app.js:122,
\* rec[...] at app.js:127.
EntryThrows(entry) ==
  \/ entry.kind = "null"
  \/ /\ entry.kind = "tuple"
     /\ \E i \in 1..Len(entry.records) : entry.records[i].kind = "null"

Throws(payload) == \E i \in 1..Len(payload.blocks) : EntryThrows(payload.blocks[i])

\* One record of a block entry, decoded (app.js:131-148).
DecodeRecord(payload, entry, rec) ==
  LET ts0 == Num(payload.ts0.ms)
      startUs == Num(rec.start_us[1])
      durationUs == Num(rec.duration_us[1])
      startMs == RAdd(ts0, RDiv(startUs, Num(Thousand)))
      endMs == RAdd(startMs, RDiv(durationUs, Num(Thousand)))
      sizePair == At(entry.size_map, rec.size_idx)
  IN  [block_id |-> entry.block_id,
       start_sec |-> RDiv(startMs, Num(Thousand)),
       end_sec |-> RDiv(endMs, Num(Thousand)),
       duration_sec |-> RDiv(durationUs, Num(Million)),
       stage |-> At(payload.maps.stage, rec.stage_idx),
       type |-> At(payload.maps.type, rec.type_idx),
       called_from |-> At(payload.maps.called_from, rec.called_from_idx),
       original_size |-> IF sizePair = <<>> THEN <<>> ELSE sizePair[1][1],
       compressed_size |-> IF sizePair = <<>> THEN <<>> ELSE sizePair[1][2]]

\* Variant of DecodeEntry that leaves the record loop at the first skipped
\* record (break for continue).
DecodeEntryUntilSkipped(payload, entry) ==
  IF entry.kind # "tuple" THEN <<>>
  ELSE LET bad == {i \in 1..Len(entry.records) : Skipped(entry.records[i])}
           kept == IF bad = {} THEN entry.records
                   ELSE SubSeq(entry.records, 1, (CHOOSE i \in bad : \A j \in bad : i <= j) - 1)
       IN  [i \in 1..Len(kept) |-> DecodeRecord(payload, entry, kept[i])]

\* The records of one block entry that the loop of app.js:126-187 decodes, in
\* order. A scalar entry has neither size map nor records.
DecodeEntry(payload, entry) ==
  IF entry.kind # "tuple" THEN <<>>
  ELSE LET kept == SelectSeq(entry.records, LAMBDA r : ~Skipped(r))
       IN  [i \in 1..Len(kept) |-> DecodeRecord(payload, entry, kept[i])]

\* Every decoded record of the payload, in payload order (app.js:121-188).
Decode(payload) ==
  Flatten([i \in 1..Len(payload.blocks) |-> DecodeEntry(payload, payload.blocks[i])])

\* Variant of EarliestSec that tracks start instants only.
EarliestStart(decoded) ==
  IF decoded = <<>> THEN <<>>
  ELSE <<RMin([i \in 1..Len(decoded) |-> decoded[i].start_sec])>>

\* earliestSec after the loop (app.js:118, 137-138); <<>> is Infinity.
EarliestSec(decoded) ==
  IF decoded = <<>> THEN <<>>
  ELSE <<RMin([i \in 1..Len(decoded) |-> decoded[i].start_sec]
              \o [i \in 1..Len(decoded) |-> decoded[i].end_sec])>>

\* The category key of a decoded record (app.js:150).
KeyOf(rec) == OrElse(rec.type, NoneStr) \o Sep \o OrElse(rec.called_from, NoneStr)

(***************************************************************************)
(* computeStatsFromCompressed: per category, per block (app.js:204-282).   *)
(***************************************************************************)
SixtySix == 66

\* grouped: the category keys in insertion order (app.js:151-155).
GroupKeys(decoded) == Distinct([i \in 1..Len(decoded) |-> KeyOf(decoded[i])])

\* The records of one category, in payload order.
GroupRecs(decoded, key) == SelectSeq(decoded, LAMBDA r : KeyOf(r) = key)

\* group.blocks: the block ids of a category in insertion order
\* (app.js:156-160).
BlockIds(recs) == Distinct([i \in 1..Len(recs) |-> recs[i].block_id])

\* recs.sort((a, b) => a.start_sec - b.start_sec) (app.js:219).
SortByStart(recs) ==
  LET sorted == StableSortKeyed([i \in 1..Len(recs) |-> <<recs[i].start_sec, recs[i]>>])
  IN  [i \in 1..Len(recs) |-> sorted[i][2]]

\* The records of one block of a category, as the loop of app.js:218 sees them.
BlockRecs(groupRecs, blockId) ==
  SortByStart(SelectSeq(groupRecs, LAMBDA r : r.block_id = blockId))

WithStage(recs, name) == SelectSeq(recs, LAMBDA r : r.stage = <<name>>)

\* compression_time / decompression_time points of a block (app.js:221-227).
StageTimePoints(recs, name, blockId) ==
  LET sel == WithStage(recs, name)
  IN  [i \in 1..Len(sel) |-> <<sel[i].end_sec, sel[i].duration_sec, blockId>>]

\* compressTs and decompressTs (app.js:229-230).
CompressTs(recs) ==
  LET sel == WithStage(recs, "compress") IN [i \in 1..Len(sel) |-> sel[i].start_sec]

DecompressTs(recs) ==
  LET sel == WithStage(recs, "decompress") IN [i \in 1..Len(sel) |-> sel[i].end_sec]

\* Variant of HasBroadcast that asks for more than one decompress record.
HasBroadcastTwoDecompress(recs) ==
  Len(CompressTs(recs)) > 0 /\ Len(DecompressTs(recs)) > 1

\* compressTs.length && decompressTs.length (app.js:232).
HasBroadcast(recs) == Len(CompressTs(recs)) > 0 /\ Len(DecompressTs(recs)) > 0

\* tsBlock (app.js:233).
TsBlock(recs) == RMin(CompressTs(recs))

\* Variant of BroadcastFull that takes the end of the decompress record that
\* starts first.
BroadcastFullToFirst(recs) == RSub(DecompressTs(recs)[1], TsBlock(recs))

\* The values of the three broadcast points (app.js:235-243).
BroadcastFull(recs) == RSub(RMax(DecompressTs(recs)), TsBlock(recs))

\* Variant of BroadcastAvg that divides by the number of all records of the
\* block.
BroadcastAvgOverAll(recs) ==
  RSub(RDiv(RSum(DecompressTs(recs)), Num(Len(recs))), TsBlock(recs))

BroadcastAvg(recs) ==
  LET d == DecompressTs(recs)
  IN  RSub(RDiv(RSum(d), Num(Len(d))), TsBlock(recs))

Broadcast66p(recs) ==
  LET d == DecompressTs(recs)
      decompSecs == [i \in 1..Len(d) |-> RSub(d[i], TsBlock(recs))]
  IN  percentile(decompSecs, Num(SixtySix))

\* originalSizes / compressedSizes as lists without repetition, in insertion
\* order (app.js:248-255): the positive sizes of the (sorted) records.
IsPositive(size) == size # <<>> /\ size[1] > 0

OriginalSizes(recs) ==
  LET sel == SelectSeq(recs, LAMBDA r : IsPositive(r.original_size))
  IN  Distinct([i \in 1..Len(sel) |-> sel[i].original_size[1]])

CompressedSizes(recs) ==
  LET sel == SelectSeq(recs, LAMBDA r : IsPositive(r.compressed_size))
  IN  Distinct([i \in 1..Len(sel) |-> sel[i].compressed_size[1]])

\* Whether the block reaches app.js:263, past the continue of 245 and 256.
HasSize(recs) ==
  HasBroadcast(recs) /\ Len(OriginalSizes(recs)) > 0 /\ Len(CompressedSizes(recs)) > 0

\* Variant of CompressionPercent: the compressed share, not the saving.
CompressionRatio(recs) ==
  RDiv(Num(CompressedSizes(recs)[1]), Num(OriginalSizes(recs)[1]))

\* compressionPercent (app.js:258-265).
CompressionPercent(recs) ==
  LET originalSize == OriginalSizes(recs)[1]
      compressedSize == CompressedSizes(recs)[1]
  IN  RDiv(Num(originalSize - compressedSize), Num(originalSize))

\* What one block adds to each list of its category (app.js:218-267).
BlockPoints(recs, blockId) ==
  [compression_time |-> StageTimePoints(recs, "compress", blockId),
   decompression_time |-> StageTimePoints(recs, "decompress", blockId),
   broadcast_time_full |->
     IF HasBroadcast(recs) THEN <<<<TsBlock(recs), BroadcastFull(recs), blockId>>>> ELSE <<>>,
   broadcast_time_avg |->
     IF HasBroadcast(recs) THEN <<<<TsBlock(recs), BroadcastAvg(recs), blockId>>>> ELSE <<>>,
   broadcast_time_66p |->
     IF HasBroadcast(recs) THEN <<<<TsBlock(recs), Broadcast66p(recs), blockId>>>> ELSE <<>>,
   block_size |->
     IF HasSize(recs) THEN <<<<TsBlock(recs), Num(OriginalSizes(recs)[1]), blockId>>>> ELSE <<>>,
   compression_percent |->
     IF HasSize(recs) THEN <<<<TsBlock(recs), CompressionPercent(recs), blockId>>>> ELSE <<>>]

\* shiftPoints (app.js:198-202).
shiftPoints(points, earliestSec) ==
  LET shifted == [i \in 1..Len(points) |->
                    <<RSub(points[i][1], earliestSec), points[i][2], points[i][3]>>]
      sorted == StableSortKeyed([i \in 1..Len(shifted) |-> <<shifted[i][1], shifted[i]>>])
  IN  [i \in 1..Len(points) |-> sorted[i][2]]

SeriesKinds ==
  {"block_size", "compression_percent", "broadcast_time_avg", "broadcast_time_full",
   "broadcast_time_66p", "compression_time", "decompression_time"}

\* statsByKey[key] (app.js:205-282). points[kind] is the list <kind>_points.
CategoryStats(decoded, key, earliestSec) ==
  LET groupRecs == GroupRecs(decoded, key)
      ids == BlockIds(groupRecs)
      per == [i \in 1..Len(ids) |-> BlockPoints(BlockRecs(groupRecs, ids[i]), ids[i])]
      sized == SelectSeq(ids, LAMBDA b : HasSize(BlockRecs(groupRecs, b)))
  IN  [key |-> key,
       type |-> groupRecs[1].type,
       called_from |-> groupRecs[1].called_from,
       num_blocks |-> Len(ids),
       points |-> [kind \in SeriesKinds |->
                     shiftPoints(Flatten([i \in 1..Len(ids) |-> per[i][kind]]), earliestSec)],
       block_size_by_id |-> [b \in Range(sized) |-> OriginalSizes(BlockRecs(groupRecs, b))[1]]]

(***************************************************************************)
(* computeStatsFromCompressed: the block index and the result              *)
(* (app.js:170-186, 284-309).                                              *)
(***************************************************************************)
\* blockMeta.size_bytes: the first positive original size among the block's
\* records in payload order (app.js:175-177).
SizeBytes(blockRecs) ==
  LET sel == SelectSeq(blockRecs, LAMBDA r : IsPositive(r.original_size))
  IN  IF sel = <<>> THEN <<>> ELSE sel[1].original_size

\* Variant of BlockEntry that takes the end of the block from the record
\* that starts last.
BlockEntryEndOfLast(decoded, blockId, earliestSec) ==
  LET records == SortByStart(SelectSeq(decoded, LAMBDA r : r.block_id = blockId))
      startSec == RMin([i \in 1..Len(records) |-> records[i].start_sec])
      endSec == records[Len(records)].end_sec
  IN  [block_id |-> blockId,
       size_bytes |-> SizeBytes(SelectSeq(decoded, LAMBDA r : r.block_id = blockId)),
       start_sec |-> RSub(startSec, earliestSec),
       end_sec |-> RSub(endSec, earliestSec),
       duration_sec |-> RSub(endSec, startSec),
       records |-> <<>>]

\* One entry of the result's blocks list (app.js:289-307).
BlockEntry(decoded, blockId, earliestSec) ==
  LET records == SortByStart(SelectSeq(decoded, LAMBDA r : r.block_id = blockId))
      startSec == RMin([i \in 1..Len(records) |-> records[i].start_sec])
      endSec == RMax([i \in 1..Len(records) |-> records[i].end_sec])
  IN  [block_id |-> blockId,
       size_bytes |-> SizeBytes(SelectSeq(decoded, LAMBDA r : r.block_id = blockId)),
       start_sec |-> RSub(startSec, earliestSec),
       end_sec |-> RSub(endSec, earliestSec),
       duration_sec |-> RSub(endSec, startSec),
       records |-> [i \in 1..Len(records) |->
                      [start_sec |-> RSub(records[i].start_sec, earliestSec),
                       end_sec |-> RSub(records[i].end_sec, earliestSec),
                       duration_sec |-> records[i].duration_sec,
                       stage |-> records[i].stage,
                       type |-> records[i].type,
                       called_from |-> records[i].called_from]]]

\* formatLocalIso (app.js:71-82): new Date(ms) drops the fraction of a
\* millisecond; the text names the whole millisecond.
formatLocalIso(ms) == RFloor(ms)

\* What the caller of a call that threw gets: no result.
Raised ==
  [status |-> "raised", experiment_name |-> <<>>, earliest_ts_global |-> <<>>,
   type_called_from_stats |-> <<>>, hasBlocks |-> FALSE, blocks |-> <<>>]

computeStatsFromCompressed(payload, fallbackName) ==
  IF FailsSoft(payload) THEN EmptyStats(payload, fallbackName)
  ELSE IF Throws(payload) THEN Raised
  ELSE
    LET decoded == Decode(payload)
        earliest == EarliestSec(decoded)
        keys == GroupKeys(decoded)
        ids == BlockIds(decoded)
    IN  IF earliest = <<>> THEN EmptyStats(payload, fallbackName)
        ELSE [status |-> "ok",
              experiment_name |->
                OrElse(payload.experiment_name, OrElse(fallbackName, <<>>)),
              earliest_ts_global |->
                <<formatLocalIso(RMul(earliest[1], Num(Thousand)))>>,
              type_called_from_stats |->
                [i \in 1..Len(keys) |-> CategoryStats(decoded, keys[i], earliest[1])],
              hasBlocks |-> TRUE,
              blocks |-> [i \in 1..Len(ids) |-> BlockEntry(decoded, ids[i], earliest[1])]]

(***************************************************************************)
(* buildPlotsData (app.js:312-378).                                        *)
(***************************************************************************)
\* tos[k]: the category with key k of one experiment's stats, if any.
CategoryOf(st, k) ==
  LET sel == SelectSeq(st.type_called_from_stats, LAMBDA c : c.key = k)
  IN  IF sel = <<>> THEN <<>> ELSE <<sel[1]>>

\* Every category of every experiment, in the order the loop of
\* app.js:314-322 visits them.
AllCategories(exps) ==
  Flatten([i \in 1..Len(exps) |-> exps[i].stats.type_called_from_stats])

\* label (app.js:319).
Label(t, cf) ==
  LET ts == IF t = <<>> THEN UndefinedStr ELSE t[1]
  IN  IF cf = <<>> \/ cf = <<NoneStr>> THEN ts
      ELSE ts \o <<32, 40>> \o cf[1] \o <<41>>

\* unionMap[k] after the loop: the last category written under k.
UnionMeta(exps, k) ==
  LET sel == SelectSeq(AllCategories(exps), LAMBDA c : c.key = k)
      last == sel[Len(sel)]
  IN  [type |-> last.type, called_from |-> last.called_from,
       label |-> Label(last.type, last.called_from)]

\* Variant of KeyBefore that compares the types only.
KeyBeforeByType(ma, mb) == StrLt(OrElse(ma.type, <<>>), OrElse(mb.type, <<>>))

\* The comparator of app.js:324-331 is negative: a sorts before b.
KeyBefore(ma, mb) ==
  LET ta == OrElse(ma.type, <<>>)
      tb == OrElse(mb.type, <<>>)
      ca == OrElse(ma.called_from, <<>>)
      cb == OrElse(mb.called_from, <<>>)
  IN  IF ta # tb THEN StrLt(ta, tb) ELSE StrLt(ca, cb)

\* Key k inserted into the sorted list t behind every key that does not sort
\* after it.
InsertKey(exps, k, t) ==
  LET p == Cardinality({i \in 1..Len(t) :
                          ~KeyBefore(UnionMeta(exps, k), UnionMeta(exps, t[i]))})
  IN  SubSeq(t, 1, p) \o <<k>> \o SubSeq(t, p + 1, Len(t))

RECURSIVE SortKeys(_, _)
SortKeys(exps, keys) ==
  IF keys = <<>> THEN <<>>
  ELSE InsertKey(exps, keys[Len(keys)], SortKeys(exps, SubSeq(keys, 1, Len(keys) - 1)))

\* unionKeys (app.js:324-331): Object.keys(unionMap), sorted.
UnionKeys(exps) ==
  LET cats == AllCategories(exps)
  IN  SortKeys(exps, Distinct([i \in 1..Len(cats) |-> cats[i].key]))

\* Variant of Slot whose placeholder carries no time origin.
SlotWithoutOrigin(exp, k) ==
  LET pair == CategoryOf(exp.stats, k)
  IN  [name |-> exp.name,
       base_ts |-> IF pair = <<>> THEN <<>> ELSE exp.stats.earliest_ts_global,
       block_size_by_id |-> IF pair = <<>> THEN <<>> ELSE pair[1].block_size_by_id,
       points |-> [kind \in SeriesKinds |->
                     IF pair = <<>> THEN <<>> ELSE pair[1].points[kind]]]

\* One experiment's slot of plotsData[k] (app.js:349-373).
Slot(exp, k) ==
  LET pair == CategoryOf(exp.stats, k)
  IN  [name |-> exp.name,
       base_ts |-> exp.stats.earliest_ts_global,
       block_size_by_id |-> IF pair = <<>> THEN <<>> ELSE pair[1].block_size_by_id,
       points |-> [kind \in SeriesKinds |->
                     IF pair = <<>> THEN <<>> ELSE pair[1].points[kind]]]

\* exps is the list of {name, stats}.
buildPlotsData(exps) ==
  LET unionKeys == UnionKeys(exps)
  IN  [unionKeys |-> unionKeys,
       unionMap |-> [k \in Range(unionKeys) |-> UnionMeta(exps, k)],
       expShortNames |-> [i \in 1..Len(exps) |-> exps[i].name],
       plotsData |-> [k \in Range(unionKeys) |->
                        [label |-> UnionMeta(exps, k).label,
                         series |-> [i \in 1..Len(exps) |-> Slot(exps[i], k)]]]]

(***************************************************************************)
(* filterByBlockSize (app.js:879-891).                                     *)
(***************************************************************************)
\* Variant of KeepsPoint with a strict comparison.
KeepsPointAbove(p, blockSizeById, min) ==
  Len(p) >= 3 /\ p[3] \in DOMAIN blockSizeById /\ blockSizeById[p[3]] > min

\* typeof size === "number" && size >= minBlockSizeBytes (app.js:886). A
\* point [t, v] without block id (p[2] undefined) finds no size.
KeepsPoint(p, blockSizeById, min) ==
  Len(p) >= 3 /\ p[3] \in DOMAIN blockSizeById /\ blockSizeById[p[3]] >= min

filterByBlockSize(points, blockSizeById, min) ==
  IF min <= 0 THEN points
  ELSE SelectSeq(points, LAMBDA p : KeepsPoint(p, blockSizeById, min))

(***************************************************************************)
(* aggregatePoints (app.js:893-933). The filter state it reads from module *)
(* variables (minBlockSizeBytes, rangeMinT, rangeMaxT, trimEdges) is       *)
(* passed as min, rMin, rMax and trim.                                     *)
(***************************************************************************)
TrimHead == 300
TrimTail == 120

\* t >= rangeMinT && t <= rangeMaxT (app.js:899).
InWindow(p, rMin, rMax) == RLe(rMin, p[1]) /\ RLe(p[1], rMax)

\* points.slice().sort((a, b) => a[0] - b[0]) (app.js:897).
SortByTime(points) ==
  LET sorted == StableSortKeyed([i \in 1..Len(points) |-> <<points[i][1], points[i]>>])
  IN  [i \in 1..Len(points) |-> sorted[i][2]]

\* Math.floor(t / windowSec) (app.js:915).
BucketOf(p, windowSec) == RFloor(RDiv(p[1], Num(windowSec)))

\* Variant of BucketPoint that stands at the time of the bucket's first point.
BucketPointAtFirstTime(members) ==
  <<members[1][1],
    RDiv(RSum([i \in 1..Len(members) |-> members[i][2]]), Num(Len(members)))>>

\* The mean point [sumT / count, sum / count] of a bucket (app.js:927-930).
BucketPoint(members) ==
  <<RDiv(RSum([i \in 1..Len(members) |-> members[i][1]]), Num(Len(members))),
    RDiv(RSum([i \in 1..Len(members) |-> members[i][2]]), Num(Len(members)))>>

\* The points between allowedMin and allowedMax, bucketed when windowSec > 0
\* (app.js:908-932).
EmitPoints(rangeFiltered, allowedMin, allowedMax, windowSec) ==
  LET kept == SelectSeq(rangeFiltered,
                        LAMBDA p : RLe(allowedMin, p[1]) /\ RLe(p[1], allowedMax))
      keys == SortNumbers(Distinct([i \in 1..Len(kept) |-> Num(BucketOf(kept[i], windowSec))]))
  IN  IF windowSec <= 0 THEN kept
      ELSE [j \in 1..Len(keys) |->
              BucketPoint(SelectSeq(kept, LAMBDA p : Num(BucketOf(p, windowSec)) = keys[j]))]

\* Variant of TrimmedRange that trims the head only.
TrimmedHeadOnly(rangeFiltered, trim) ==
  <<IF trim THEN RAdd(rangeFiltered[1][1], Num(TrimHead)) ELSE rangeFiltered[1][1],
    rangeFiltered[Len(rangeFiltered)][1]>>

\* Variant of TrimmedRange that trims whatever the flag says.
TrimmedAlways(rangeFiltered, trim) ==
  <<RAdd(rangeFiltered[1][1], Num(TrimHead)),
    RSub(rangeFiltered[Len(rangeFiltered)][1], Num(TrimTail))>>

\* <<allowedMin, allowedMax>> (app.js:902-905).
TrimmedRange(rangeFiltered, trim) ==
  LET minT == rangeFiltered[1][1]
      maxT == rangeFiltered[Len(rangeFiltered)][1]
  IN  <<IF trim THEN RAdd(minT, Num(TrimHead)) ELSE minT,
        IF trim THEN RSub(maxT, Num(TrimTail)) ELSE maxT>>

\* Variant of SliceSorted that sorts the list itself.
SortedInPlace(list) == [sorted |-> SortByTime(list), list |-> SortByTime(list)]

\* sizeFiltered.slice().sort(...) (app.js:897): the sorted copy, and the
\* list, which stays as it was.
SliceSorted(list) == [sorted |-> SortByTime(list), list |-> list]

\* The list handed to aggregatePoints when the call has returned. Without a
\* size threshold sizeFiltered is that list itself (app.js:880), and line
\* 897 leaves of it what SliceSorted leaves; with a threshold sizeFiltered
\* is a new list.
seriesAfterAggregate(points, min) ==
  IF points = <<>> \/ min > 0 THEN points ELSE SliceSorted(points).list

aggregatePoints(points, windowSec, blockSizeById, min, rMin, rMax, trim) ==
  LET sorted == SliceSorted(filterByBlockSize(points, blockSizeById, min)).sorted
      rangeFiltered == SelectSeq(sorted, LAMBDA p : InWindow(p, rMin, rMax))
  IN  IF rangeFiltered = <<>> THEN <<>>
      ELSE LET allowed == TrimmedRange(rangeFiltered, trim)
           IN  IF RLt(allowed[2], allowed[1]) THEN <<>>
               ELSE EmitPoints(rangeFiltered, allowed[1], allowed[2], windowSec)

(***************************************************************************)
(* computeAveragesForPair (app.js:935-962).                                *)
(***************************************************************************)
\* ROWS_SPEC (app.js:1-10): the metrics of the summary table, in row order.
Metrics ==
  <<"num_blocks", "avg_block_size_bytes", "avg_compression_percent",
    "avg_broadcast_time_avg_s", "avg_broadcast_time_66p_s",
    "avg_broadcast_time_full_s", "avg_compression_time_s",
    "avg_decompression_time_s">>

\* The series a metric is computed from (app.js:952-961).
MetricKind(metric) ==
  CASE metric = "num_blocks" -> "block_size"
    [] metric = "avg_block_size_bytes" -> "block_size"
    [] metric = "avg_compression_percent" -> "compression_percent"
    [] metric = "avg_broadcast_time_avg_s" -> "broadcast_time_avg"
    [] metric = "avg_broadcast_time_66p_s" -> "broadcast_time_66p"
    [] metric = "avg_broadcast_time_full_s" -> "broadcast_time_full"
    [] metric = "avg_compression_time_s" -> "compression_time"
    [] metric = "avg_decompression_time_s" -> "decompression_time"

\* The points avgFromPoints and countFromPoints keep (app.js:939-940,
\* 948-949).
WindowFiltered(points, blockSizeById, min, rMin, rMax) ==
  SelectSeq(filterByBlockSize(points, blockSizeById, min),
            LAMBDA p : InWindow(p, rMin, rMax))

\* Variant of avgFromPoints that divides by the number of raw points.
avgOverRawPoints(points, blockSizeById, min, rMin, rMax) ==
  LET filtered == WindowFiltered(points, blockSizeById, min, rMin, rMax)
  IN  IF filtered = <<>> THEN Num(0)
      ELSE RDiv(RSum([i \in 1..Len(filtered) |-> filtered[i][2]]), Num(Len(points)))

\* avgFromPoints (app.js:937-944).
avgFromPoints(points, blockSizeById, min, rMin, rMax) ==
  LET filtered == WindowFiltered(points, blockSizeById, min, rMin, rMax)
  IN  IF filtered = <<>> THEN Num(0)
      ELSE RDiv(RSum([i \in 1..Len(filtered) |-> filtered[i][2]]), Num(Len(filtered)))

\* countFromPoints (app.js:946-950).
countFromPoints(points, blockSizeById, min, rMin, rMax) ==
  Num(Len(WindowFiltered(points, blockSizeById, min, rMin, rMax)))

\* pairData holds the points and the sizes of one experiment's slot of a
\* category (app.js:995-1004).
computeAveragesForPair(pairData, min, rMin, rMax) ==
  [metric \in Range(Metrics) |->
     IF metric = "num_blocks"
     THEN countFromPoints(pairData.points[MetricKind(metric)], pairData.block_size_by_id,
                          min, rMin, rMax)
     ELSE avgFromPoints(pairData.points[MetricKind(metric)], pairData.block_size_by_id,
                        min, rMin, rMax)]

(***************************************************************************)
(* Visibility (app.js:748-760).                                            *)
(***************************************************************************)
\* Variant of hasBlocksAfterSizeFilter that asks every experiment for a
\* surviving point.
hasBlocksInEveryExperiment(item, min) ==
  \A i \in 1..Len(item.series) :
    \E j \in 1..Len(item.series[i].points["block_size"]) :
      min <= 0 \/ RLe(Num(min), item.series[i].points["block_size"][j][2])

\* Variant of hasBlocksAfterSizeFilter that looks at the points inside the
\* time window only.
hasBlocksInsideWindow(item, min) ==
  \E i \in 1..Len(item.series) :
    \E j \in 1..Len(item.series[i].points["block_size"]) :
      /\ min <= 0 \/ RLe(Num(min), item.series[i].points["block_size"][j][2])
      /\ InWindow(item.series[i].points["block_size"][j], rangeMinT, rangeMaxT)

\* hasBlocksAfterSizeFilter: some experiment has a block_size point, of a
\* value >= minBlockSizeBytes when that is set.
hasBlocksAfterSizeFilter(item, min) ==
  \E i \in 1..Len(item.series) :
    \E j \in 1..Len(item.series[i].points["block_size"]) :
      min <= 0 \/ RLe(Num(min), item.series[i].points["block_size"][j][2])

getVisibleUnionKeys(data, min) ==
  SelectSeq(data.unionKeys, LAMBDA k : hasBlocksAfterSizeFilter(data.plotsData[k], min))

(***************************************************************************)
(* rebuildAveragesTable (app.js:964-1075).                                 *)
(***************************************************************************)
BroadcastMetrics ==
  {"avg_broadcast_time_avg_s", "avg_broadcast_time_full_s", "avg_broadcast_time_66p_s"}

\* bestIdx after the first n values of the loop of app.js:1017-1024: the
\* first greatest non-null value. A value is <<>> (null) or <<v>>.
RECURSIVE ScanGreatest(_, _)
ScanGreatest(groupVals, n) ==
  IF n = 0 THEN <<>>
  ELSE LET best == ScanGreatest(groupVals, n - 1)
       IN  IF /\ groupVals[n] # <<>>
              /\ (best = <<>> \/ RLt(groupVals[best[1]][1], groupVals[n][1]))
           THEN <<n>> ELSE best

\* bestIdx after the first n values of the loop of app.js:1025-1032: the
\* first least non-null value above 0.
RECURSIVE ScanLeastPositive(_, _)
ScanLeastPositive(groupVals, n) ==
  IF n = 0 THEN <<>>
  ELSE LET best == ScanLeastPositive(groupVals, n - 1)
       IN  IF /\ groupVals[n] # <<>>
              /\ RLt(Num(0), groupVals[n][1])
              /\ (best = <<>> \/ RLt(groupVals[n][1], groupVals[best[1]][1]))
           THEN <<n>> ELSE best

\* Variant of BestIdx that lets a broadcast time of 0 win.
BestIdxZeroWins(keyName, groupVals) ==
  IF keyName = "avg_compression_percent" THEN ScanGreatest(groupVals, Len(groupVals))
  ELSE IF keyName \in BroadcastMetrics
  THEN ScanGreatest([i \in 1..Len(groupVals) |->
                       IF groupVals[i] = <<>> THEN <<>>
                       ELSE <<RSub(Num(0), groupVals[i][1])>>], Len(groupVals))
  ELSE <<>>

\* bestIdx (app.js:1016-1033).
BestIdx(keyName, groupVals) ==
  IF keyName = "avg_compression_percent" THEN ScanGreatest(groupVals, Len(groupVals))
  ELSE IF keyName \in BroadcastMetrics THEN ScanLeastPositive(groupVals, Len(groupVals))
  ELSE <<>>

\* The class of the cell of experiment i (app.js:1035-1051): "-" for a cell
\* without value, "best-cell", "other-cell" or "" for none.
CellClass(keyName, groupVals, i) ==
  IF groupVals[i] = <<>> \/ (keyName = "num_blocks" /\ groupVals[i][1] = Num(0)) THEN "-"
  ELSE IF BestIdx(keyName, groupVals) = <<>> THEN ""
  ELSE IF BestIdx(keyName, groupVals) = <<i>> THEN "best-cell"
  ELSE "other-cell"

\* allAvgs (app.js:986-1008): per visible key, per experiment.
AllAvgs(data, visibleKeys, min, rMin, rMax) ==
  [k \in Range(visibleKeys) |->
     [i \in 1..Len(data.expShortNames) |->
        computeAveragesForPair(data.plotsData[k].series[i], min, rMin, rMax)]]

\* The classes of the cells, per visible key, metric and experiment.
CellClasses(allAvgs) ==
  [k \in DOMAIN allAvgs |->
     [metric \in Range(Metrics) |->
        [i \in 1..Len(allAvgs[k]) |->
           CellClass(metric, [j \in 1..Len(allAvgs[k]) |-> <<allAvgs[k][j][metric]>>], i)]]]

\* What the table shows: its columns (none: "No blocks match the current
\* size filter."), the averages and the classes of the cells.
rebuildAveragesTable(data, min, rMin, rMax) ==
  LET visibleKeys == getVisibleUnionKeys(data, min)
      allAvgs == AllAvgs(data, visibleKeys, min, rMin, rMax)
  IN  [columns |-> visibleKeys, avgs |-> allAvgs, classes |-> CellClasses(allAvgs)]

(***************************************************************************)
(* The chart tabs (app.js:1094-1131). fs is the filter state the functions *)
(* read from module variables: [min, rMin, rMax, trim, w] for              *)
(* minBlockSizeBytes, rangeMinT, rangeMaxT, trimEdges, averagingWindowSec. *)
(***************************************************************************)
\* valueScale of the seven calls of plotSeriesMulti (app.js:1124-1130).
ValueScale(kind) ==
  CASE kind = "compression_percent" -> Hundred
    [] kind \in {"compression_time", "decompression_time"} -> Thousand
    [] OTHER -> 1

\* scaled (app.js:1101).
Scaled(points, valueScale) ==
  IF valueScale = 1 THEN points
  ELSE [i \in 1..Len(points) |->
          <<points[i][1], RMul(points[i][2], Num(valueScale)), points[i][3]>>]

\* The points pts of every trace of the seven plots of a tab (app.js:1102);
\* x and y of a trace are drawn from them.
Chart(item, fs) ==
  [kind \in SeriesKinds |->
     [i \in 1..Len(item.series) |->
        aggregatePoints(Scaled(item.series[i].points[kind], ValueScale(kind)), fs.w,
                        item.series[i].block_size_by_id, fs.min, fs.rMin, fs.rMax, fs.trim)]]

\* The plots of every tab before any is drawn (app.js:424-459).
NoCharts(data) == [k \in Range(data.unionKeys) |-> <<>>]

\* renderTab: charts holds, per key, what the plots of its tab show.
renderTab(key, data, charts, fs) ==
  IF key \notin Range(data.unionKeys) THEN charts
  ELSE IF ~hasBlocksAfterSizeFilter(data.plotsData[key], fs.min) THEN charts
  ELSE [charts EXCEPT ![key] = <<Chart(data.plotsData[key], fs)>>]

(***************************************************************************)
(* The blocks list and its tabs (app.js:380-415, 1133-1144, 1201-1280,     *)
(* 1407-1435).                                                             *)
(***************************************************************************)
TopBlocks == 25

\* `${n}` for a whole number n >= 0: its decimal digits.
RECURSIVE Decimal(_)
Decimal(n) == IF n < 10 THEN <<48 + n>> ELSE Append(Decimal(n \div 10), 48 + (n % 10))

\* The signature keys of a block's records in insertion order
\* (app.js:386-394): `${rec.type || "None"}__${rec.called_from || "None"}`.
SignatureKeys(records) == Distinct([i \in 1..Len(records) |-> KeyOf(records[i])])

\* Variant of SignatureSpan that spans all records of the block.
SignatureSpanOfBlock(records, sigKey) ==
  RSub(RMax([i \in 1..Len(records) |-> records[i].end_sec]),
       RMin([i \in 1..Len(records) |-> records[i].start_sec]))

\* sig.max - sig.min of one signature (app.js:391-401): the greatest end
\* minus the least start of the block's records with that signature.
SignatureSpan(records, sigKey) ==
  LET recs == SelectSeq(records, LAMBDA r : KeyOf(r) = sigKey)
  IN  RSub(RMax([i \in 1..Len(recs) |-> recs[i].end_sec]),
           RMin([i \in 1..Len(recs) |-> recs[i].start_sec]))

\* signature_durations (app.js:400-404) as <<signature, duration>> pairs in
\* insertion order: a signature is entered when its span is not negative.
SignatureDurations(records) ==
  LET keys == SignatureKeys(records)
  IN  SelectSeq([i \in 1..Len(keys) |-> <<keys[i], SignatureSpan(records, keys[i])>>],
                LAMBDA e : RLe(Num(0), e[2]))

\* buildBlocksData (app.js:380-415): the blocks of every experiment with
\* their key `${exp.name}__${block.block_id}` and their signature durations.
buildBlocksData(exps) ==
  Flatten([i \in 1..Len(exps) |->
             [j \in 1..Len(exps[i].stats.blocks) |->
                [key |-> exps[i].name \o Sep \o Decimal(exps[i].stats.blocks[j].block_id),
                 experiment |-> exps[i].name,
                 block_id |-> exps[i].stats.blocks[j].block_id,
                 size_bytes |-> exps[i].stats.blocks[j].size_bytes,
                 start_sec |-> exps[i].stats.blocks[j].start_sec,
                 end_sec |-> exps[i].stats.blocks[j].end_sec,
                 duration_sec |-> exps[i].stats.blocks[j].duration_sec,
                 signature_durations |->
                   SignatureDurations(exps[i].stats.blocks[j].records)]]])

\* The keys of the blocks-list tabs beside those of the categories
\* (app.js:1411).
AllKey == <<97, 108, 108>>                    \* "all"
CustomKey == <<99, 117, 115, 116, 111, 109>>  \* "custom"

\* block.signature_durations[key]: <<duration>>, or <<>> when the block has
\* no entry under the key.
SignatureDuration(block, key) ==
  LET sel == SelectSeq(block.signature_durations, LAMBDA e : e[1] = key)
  IN  IF sel = <<>> THEN <<>> ELSE <<sel[1][2]>>

\* getFilteredBlocks (app.js:1133-1144): fs.key is BLOCKS_FILTER_KEY.
getFilteredBlocks(blocks, fs) ==
  SelectSeq(blocks,
            LAMBDA b :
              /\ ~(fs.min > 0 /\ (b.size_bytes = <<>> \/ b.size_bytes[1] < fs.min))
              /\ ~(RLt(b.end_sec, fs.rMin) \/ RLt(fs.rMax, b.start_sec))
              /\ fs.key # AllKey => SignatureDuration(b, fs.key) # <<>>)

\* aDur and bDur of app.js:1215-1220.
SortDuration(block, key) ==
  IF key = AllKey THEN block.duration_sec
  ELSE IF SignatureDuration(block, key) = <<>> THEN Num(0)
  ELSE SignatureDuration(block, key)[1]

\* The sort of app.js:1214-1224: longest first, equal durations by block id
\* (the ids of the model are single digits, so their texts compare as they
\* do).
SortBlocks(blocks, key) ==
  LET byId == StableSortKeyed([i \in 1..Len(blocks) |-> <<Num(blocks[i].block_id), blocks[i]>>])
      byDuration == StableSortKeyed([i \in 1..Len(byId) |->
                                       <<RSub(Num(0), SortDuration(byId[i][2], key)),
                                         byId[i][2]>>])
  IN  [i \in 1..Len(blocks) |-> byDuration[i][2]]

\* renderBlocksList (app.js:1201-1280): the keys of the tiles and the number
\* of matching blocks of the summary line; under the key "custom" the list
\* is empty and the summary names no number.
renderBlocksList(blocks, fs) ==
  IF fs.key = CustomKey THEN [tiles |-> <<>>, matching |-> 0]
  ELSE LET filtered == SortBlocks(getFilteredBlocks(blocks, fs), fs.key)
           shown == IF Len(filtered) > TopBlocks THEN TopBlocks ELSE Len(filtered)
       IN  [tiles |-> [i \in 1..shown |-> filtered[i].key], matching |-> Len(filtered)]

\* The class "active" after a loop that toggles it on the buttons of tabs by
\* dataset.tab === key (app.js:1305-1307, 1418, 1421-1423).
Marked(tabs, key) == [tabs EXCEPT !.active = {k \in Range(tabs.keys) : k = key}]

\* Variant of setActiveTab that leaves the buttons of the blocks list alone.
setActiveChartTabOnly(tabs, key) == tabs

\* setActiveTab (app.js:1304-1311) on the buttons of the blocks list, which
\* are of the class "tab-btn" as well.
setActiveTab(tabs, key) == Marked(tabs, key)

\* renderBlocksTabs (app.js:1407-1435): the buttons of the blocks list, of
\* which the one with the key BLOCKS_FILTER_KEY is active.
renderBlocksTabs(visibleKeys, filterKey) ==
  Marked([keys |-> <<AllKey>> \o visibleKeys \o <<CustomKey>>, active |-> {}], filterKey)

(***************************************************************************)
(* The time line (app.js:694-729, 788-811).                                *)
(***************************************************************************)
\* <<globalMinT, globalMaxT>> after computeGlobalTimeRange.
computeGlobalTimeRange(data) ==
  LET ts == UNION {{data.plotsData[k].series[i].points[kind][j][1] :
                      j \in 1..Len(data.plotsData[k].series[i].points[kind])} :
                     k \in Range(data.unionKeys), i \in 1..Len(data.expShortNames),
                     kind \in SeriesKinds}
  IN  IF ts = {} THEN <<Num(0), Num(1)>>
      ELSE <<CHOOSE m \in ts : \A x \in ts : RLe(m, x),
             CHOOSE m \in ts : \A x \in ts : RLe(x, m)>>

\* updateTimelineHandles: where the handles and labels stand; they stay when
\* the global range is empty (app.js:796).
updateTimelineHandles(global, rMin, rMax, timeline) ==
  IF RLe(RSub(global[2], global[1]), Num(0)) THEN timeline ELSE <<rMin, rMax>>

\* Math.abs.
RAbs(a) == IF RLt(a, Num(0)) THEN RSub(Num(0), a) ELSE a

\* t of a pointer at the share pct of the track (app.js:825, 865).
TrackTime(global, pct) == RAdd(global[1], RMul(pct, RSub(global[2], global[1])))

\* Math.min(t, rangeMaxT - 1) and Math.max(t, rangeMinT + 1)
\* (app.js:828-830, 870-872).
MoveLeft(t, rMax) == IF RLt(t, RSub(rMax, Num(1))) THEN t ELSE RSub(rMax, Num(1))
MoveRight(t, rMin) == IF RLt(RAdd(rMin, Num(1)), t) THEN t ELSE RAdd(rMin, Num(1))

(***************************************************************************)
(* rebuildAll (app.js:1077-1086) with updateVisibleTabs (app.js:1282-1302).*)
(* The chart tab buttons are taken to precede those of the blocks list in  *)
(* the document, so that ".tab-btn.active" is the active chart tab.        *)
(***************************************************************************)
\* Variant of TabAfterUpdate that leaves the active tab as it is.
TabKept(visibleKeys, active) == active

\* The active tab after updateVisibleTabs: the first visible one when none is
\* active or the active one is hidden.
TabAfterUpdate(visibleKeys, active) ==
  IF (active = <<>> \/ active[1] \notin Range(visibleKeys)) /\ visibleKeys # <<>>
  THEN <<visibleKeys[1]>> ELSE active

\* The active tab and the view after rebuildAll. renderTab of the tab that
\* updateVisibleTabs activates runs twice with the same outcome
\* (app.js:1299, 1082).
rebuildAll(data, blocks, fs, v, active) ==
  LET visibleKeys == getVisibleUnionKeys(data, fs.min)
      tab == TabAfterUpdate(visibleKeys, active)
  IN  [activeTab |-> tab,
       view |-> [table |-> rebuildAveragesTable(data, fs.min, fs.rMin, fs.rMax),
                 tabs |-> visibleKeys,
                 charts |-> IF tab = <<>> THEN v.charts
                            ELSE renderTab(tab[1], data, v.charts, fs),
                 blocksTabs |-> renderBlocksTabs(visibleKeys, fs.key),
                 blocksList |-> renderBlocksList(blocks, fs),
                 timeline |-> v.timeline]]

(***************************************************************************)
(* The payloads the model loads.                                           *)
(***************************************************************************)
TypeA == <<97>>        \* "a"
TypeB == <<98>>        \* "b"
OriginX == <<120>>     \* "x"
NameP == <<80>>        \* "P": a payload's own experiment_name

Maps ==
  [stage |-> <<"compress", "decompress", "other">>,
   type |-> <<TypeA, TypeB>>,
   called_from |-> <<OriginX>>]

\* [original_size, compressed_size] pairs of a block: both known; compressed
\* size 0; original size 0; compressed size null; both known and small; both
\* known, compressed to a quarter.
SizeMap ==
  << << <<2048>>, <<1024>> >>, << <<512>>, <<0>> >>,
     << <<0>>, <<256>> >>, << <<4096>>, <<>> >>, << <<512>>, <<256>> >>,
     << <<4096>>, <<1024>> >> >>

\* A record with every field; start and duration in seconds.
Rec(startS, durS, stage, type, calledFrom, size) ==
  [kind |-> "tuple", start_us |-> <<startS * Million>>,
   duration_us |-> <<durS * Million>>, stage_idx |-> stage, type_idx |-> type,
   called_from_idx |-> calledFrom, size_idx |-> size]

NullRec == [kind |-> "null"]
ScalarRec == [kind |-> "scalar"]
NoStartRec == [Rec(0, 1, 0, 0, 0, 0) EXCEPT !.start_us = <<>>]
NoDurationRec == [Rec(1, 1, 1, 0, 0, 0) EXCEPT !.duration_us = <<>>]

\* Stage and category vary: an origin index of -1 resolves to no origin.
StageRecs ==
  {Rec(0, 1, st, c[1], c[2], 0) : st \in {0, 1, 2}, c \in {<<0, -1>>, <<1, 0>>}}

\* Start and duration vary (a negative duration ends before it starts).
TimeRecs ==
  {Rec(t[1], t[2], st, 0, 0, 0) :
     st \in {0, 1}, t \in {<<0, 2>>, <<1, 3>>, <<3, -2>>}}

\* Signature and time vary: records of type a or b from origin x, lasting
\* from 0 to 2 or from 3 back to 1.
SignatureRecs ==
  {Rec(t[1], t[2], 0, c, 0, 0) : c \in {0, 1}, t \in {<<0, 2>>, <<3, -2>>}}

\* The size pair varies: compress records with every pair, decompress records
\* with both sizes known or with the compressed size only.
SizeRecs ==
  {Rec(0, 1, 0, 0, 0, sz) : sz \in {0, 1, 2, 3}} \cup {Rec(0, 1, 1, 0, 0, sz) : sz \in {0, 2}}

\* Sizes differ within a block: the records starting at 1 carry 2048 and
\* 1024 bytes, those starting at 0 carry 512 and 256.
SizeOrderRecs ==
  {Rec(t[1], 1, st, 0, 0, t[2]) : st \in {0, 1}, t \in {<<1, 0>>, <<0, 4>>}}

\* Records of a large and of a small block.
FilterRecs == {Rec(0, 1, st, 0, 0, sz) : st \in {0, 1}, sz \in {0, 4}}

\* Malformed and incomplete records.
BrokenRecs ==
  {NullRec, ScalarRec, NoStartRec, NoDurationRec,
   Rec(0, 1, 0, 0, 0, 0), Rec(1, 1, 1, 0, 0, 0)}

\* Categories vary: (a), (a, x), (b); the first record starts half a
\* millisecond after ts0.
CategoryRecs ==
  {[Rec(0, 1, 0, c[1], c[2], 0) EXCEPT !.start_us = <<500>>] :
     c \in {<<1, -1>>, <<0, 0>>, <<0, -1>>}}

Entry(id, records) ==
  [kind |-> "tuple", block_id |-> id, size_map |-> SizeMap, records |-> records]

NullEntry == [kind |-> "null"]
ScalarEntry == [kind |-> "scalar"]

Payload(name, ts0, isList, blocks) ==
  [experiment_name |-> name, ts0 |-> ts0, blocksIsList |-> isList,
   blocks |-> blocks, maps |-> Maps]

ValidTs0 == [kind |-> "valid", ms |-> 5000]
Ts0Values == {ValidTs0, [kind |-> "missing", ms |-> 0], [kind |-> "unparseable", ms |-> 0]}

SeqsUpTo(S, n) == UNION {[1..k -> S] : k \in 0..n}

\* The display name of the i-th experiment of the query string: "E", "F", ...
ExpName(i) == <<68 + i>>

Experiments(payloads) ==
  [i \in 1..Len(payloads) |-> [name |-> ExpName(i), payload |-> payloads[i]]]

\* One experiment is requested; its payload holds two block entries with at
\* most n records of S together.
LoadsTwoBlocks(S, n, name, ts0) ==
  \E k \in 0..n : \E a \in [1..k -> S] :
    \E j \in 0..(n - k) : \E b \in [1..j -> S] :
      experiments = Experiments(<<Payload(name, ts0, TRUE, <<Entry(1, a), Entry(2, b)>>)>>)

\* One experiment is requested; its payload holds a null or scalar block
\* entry beside an entry with at most n records, or no entry, or no list.
LoadsBrokenBlocks(n, name, ts0) ==
  \/ \E e \in {NullEntry, ScalarEntry} : \E k \in 0..n : \E r \in [1..k -> BrokenRecs] :
       experiments \in {Experiments(<<Payload(name, ts0, TRUE, bl)>>) :
                          bl \in {<<e, Entry(2, r)>>, <<Entry(1, r), e>>}}
  \/ experiments \in {Experiments(<<Payload(name, ts0, isList, <<>>)>>) : isList \in BOOLEAN}

\* Lists of S without repetition, of at most n elements.
DistinctSeqsUpTo(S, n) ==
  {r \in SeqsUpTo(S, n) : \A i, j \in 1..Len(r) : i # j => r[i] # r[j]}

\* Payloads of one block entry whose records differ in category, and one
\* without ts0.
CategoryPayloads ==
  {Payload(<<>>, ValidTs0, TRUE, <<Entry(1, r)>>) :
     r \in DistinctSeqsUpTo(CategoryRecs, MaxRecs - 1)}
  \cup {Payload(<<>>, [kind |-> "missing", ms |-> 0], TRUE, <<>>)}

\* A block compressed at 10 s and 12 s and decompressed until 20 s, 25 s and
\* 30 s.
ExamplePayload ==
  Payload(<<>>, ValidTs0, TRUE,
          <<Entry(1, <<Rec(10, 1, 0, 0, 0, 0), Rec(12, 1, 0, 0, 0, 0),
                       Rec(19, 1, 1, 0, 0, 0), Rec(23, 2, 1, 0, 0, 0),
                       Rec(27, 3, 1, 0, 0, 0)>>)>>)

\* A block of the charts: compressed for 1 s from t on; a large block is
\* decompressed within 2 s, a small one within 3 s.
ChartBlock(id, t, size) ==
  Entry(id, <<Rec(t, 1, 0, 0, -1, size), Rec(t, IF size = 0 THEN 2 ELSE 3, 1, 0, -1, size)>>)

\* Start times around the trimmed edges of a series spanning 1000 s.
ChartTimes == {0, 299, 300, 880, 881, 1000}

\* One experiment of at most n blocks in one category, at ascending times,
\* each large or small.
LoadsChartBlocks(n) ==
  \E k \in 1..n : \E ts \in [1..k -> ChartTimes] : \E sz \in [1..k -> {0, 4}] :
    /\ \A i \in 1..(k - 1) : ts[i] < ts[i + 1]
    /\ experiments =
         Experiments(<<Payload(<<>>, ValidTs0, TRUE,
                               [i \in 1..k |-> ChartBlock(i, ts[i], sz[i])])>>)

\* Blocks of the summary table as <<type, start, seconds until decompressed,
\* size pair>>: a block of type a of 2048 bytes; of type b, a block of 512
\* bytes and a later one of 4096 bytes, compressed further and decompressed
\* at once; a later block of type a without compressed size.
TableShapes ==
  <<<<0, 0, 2, 0>>, <<1, 0, 3, 4>>, <<1, 600, 0, 5>>, <<0, 600, 2, 3>>>>

TableBlock(id, shape) ==
  Entry(id, <<Rec(shape[2], 1, 0, shape[1], -1, shape[4]),
              Rec(shape[2], shape[3], 1, shape[1], -1, shape[4])>>)

\* Payloads of at most n blocks out of the first m shapes, in their order.
TablePayloads(n, m) ==
  {Payload(<<>>, ValidTs0, TRUE, [i \in 1..Len(ix) |-> TableBlock(i, TableShapes[ix[i]])]) :
     ix \in {jx \in SeqsUpTo(1..m, n) : \A i \in 1..(Len(jx) - 1) : jx[i] < jx[i + 1]}}

(***************************************************************************)
(* The page.                                                               *)
(***************************************************************************)
Kilo == 1024

NoPlots == [unionKeys |-> <<>>, unionMap |-> <<>>, expShortNames |-> <<>>, plotsData |-> <<>>]

\* The size-filtered list of every raw series: the first step of
\* aggregatePoints (app.js:895) and of computeAveragesForPair (app.js:939).
SizeFiltered(data, min) ==
  [k \in Range(data.unionKeys) |->
     [i \in 1..Len(data.expShortNames) |->
        [kind \in SeriesKinds |->
           filterByBlockSize(data.plotsData[k].series[i].points[kind],
                             data.plotsData[k].series[i].block_size_by_id, min)]]]

\* globalMaxBlockSize after computeGlobalBlockSizeRange (app.js:730-746): the
\* largest value of a block_size point, 0 when there is none.
GlobalMaxBlockSize(data) ==
  LET sizes == UNION {{data.plotsData[k].series[i].points["block_size"][j][2] :
                         j \in 1..Len(data.plotsData[k].series[i].points["block_size"])} :
                        k \in Range(data.unionKeys), i \in 1..Len(data.expShortNames)}
  IN  IF sizes = {} THEN Num(0)
      ELSE CHOOSE m \in sizes : \A x \in sizes : RLe(x, m)

\* The status overlay (app.js:35-48): whether it is visible, its text (with
\* the number the text names, 0 when it names none) and the state class of
\* its card.
NoStatus == [visible |-> FALSE, message |-> "", pct |-> 0, state |-> ""]

\* setStatus(message, state): an empty message hides the overlay and leaves
\* its text and class.
setStatus(cur, message, pct, state) ==
  IF message = "" THEN [cur EXCEPT !.visible = FALSE]
  ELSE [visible |-> TRUE, message |-> message, pct |-> pct, state |-> state]

\* No range is asked of the server, the overlay is hidden and no timer runs.
InitLocal ==
  /\ status = NoStatus
  /\ request = <<>>
  /\ prepareTimer = <<>>

\* No call of percentile is under test.
InitNoCall ==
  /\ call = <<>>
  /\ ret = <<>>

\* The page before initializeUI: averagingWindowSec, trimEdges, rangeMinT and
\* rangeMaxT as declared (app.js:22-29), nothing drawn.
DefaultAveraging == 10

NoView ==
  [table |-> [columns |-> <<>>, avgs |-> <<>>, classes |-> <<>>],
   tabs |-> <<>>, charts |-> <<>>,
   blocksTabs |-> [keys |-> <<>>, active |-> {}],
   blocksList |-> [tiles |-> <<>>, matching |-> 0],
   timeline |-> <<Num(0), Num(0)>>]

InitPage ==
  /\ rangeMinT = Num(0)
  /\ rangeMaxT = Num(0)
  /\ trimEdges = TRUE
  /\ averagingWindowSec = DefaultAveraging
  /\ dragging = <<>>
  /\ activeTab = <<>>
  /\ view = NoView
  /\ blocksFilterKey = AllKey

InitCommon ==
  /\ InitNoCall
  /\ InitPage
  /\ InitLocal
  /\ stats = <<>>
  /\ plots = NoPlots
  /\ minBlockSizeBytes = 0
  /\ sizeFiltered = <<>>
  /\ pc = "loading"

\* One experiment: well formed with records that vary in stage and category,
\* in time or in size, or the example block, or degenerate.
InitDecode ==
  /\ \/ \E S \in {StageRecs, TimeRecs, SizeRecs, SignatureRecs, SizeOrderRecs} :
          LoadsTwoBlocks(S, MaxRecs, <<>>, ValidTs0)
     \/ experiments = Experiments(<<ExamplePayload>>)
     \/ \E name \in {<<>>, <<NameP>>} : \E ts0 \in Ts0Values :
          \/ LoadsTwoBlocks(BrokenRecs, MaxRecs - 1, name, ts0)
          \/ LoadsBrokenBlocks(MaxRecs - 1, name, ts0)
  /\ InitCommon

\* Several experiments with different categories.
InitUnion ==
  /\ \E n \in 1..MaxExps : \E ps \in [1..n -> CategoryPayloads] :
       experiments = Experiments(ps)
  /\ InitCommon

\* One experiment whose blocks differ in size.
InitFilter ==
  /\ LoadsTwoBlocks(FilterRecs, MaxFilterRecs, <<>>, ValidTs0)
  /\ InitCommon

\* A list of results cut behind the first call that threw.
UpToFirstRaise(all) ==
  LET bad == {i \in 1..Len(all) : all[i].status = "raised"}
  IN  IF bad = {} THEN all
      ELSE SubSeq(all, 1, CHOOSE i \in bad : \A j \in bad : i <= j)

\* String.prototype.trim on a text without line breaks: the spaces at both
\* ends are dropped.
Space == 32

RECURSIVE TrimStart(_)
TrimStart(s) == IF s # <<>> /\ Head(s) = Space THEN TrimStart(Tail(s)) ELSE s

RECURSIVE TrimEnd(_)
TrimEnd(s) ==
  IF s # <<>> /\ s[Len(s)] = Space THEN TrimEnd(SubSeq(s, 1, Len(s) - 1)) ELSE s

\* trimLabel (app.js:1502-1506): "" for an empty value, else the trimmed
\* text cut to its first maxLen characters.
TrimLabelMax == 15

trimLabel(value, maxLen) ==
  IF value = <<>> THEN <<>>
  ELSE LET trimmed == TrimEnd(TrimStart(value))
       IN  IF Len(trimmed) > maxLen THEN SubSeq(trimmed, 1, maxLen) ELSE trimmed

\* The calls of computeStatsFromCompressed made by loadAndInit
\* (app.js:1637-1646), up to the first that throws.
StatsCalls(exps) ==
  UpToFirstRaise([i \in 1..Len(exps) |->
                    computeStatsFromCompressed(exps[i].payload,
                                               <<trimLabel(exps[i].name, TrimLabelMax)>>)])

\* The experiments list of app.js:1637-1646: {name: displayName, stats} per
\* query name.
Named(exps, results) ==
  [i \in 1..Len(results) |->
     [name |-> trimLabel(exps[i].name, TrimLabelMax), stats |-> results[i]]]

AllOk(results) == \A i \in 1..Len(results) : results[i].status = "ok"

\* The filter state the page's functions read.
FilterState ==
  [min |-> minBlockSizeBytes, rMin |-> rangeMinT, rMax |-> rangeMaxT,
   trim |-> trimEdges, w |-> averagingWindowSec, key |-> blocksFilterKey]

\* BLOCKS_DATA (app.js:1657).
BlocksData == buildBlocksData(Named(experiments, stats))

\* initializeUI (app.js:1437-1472) on the data just built: the window is the
\* global range, every tab button is shown, the table, the blocks tabs and
\* the blocks list are drawn and the first tab button of the document is
\* activated and rendered: the first chart tab, or the blocks tab "all" when
\* there is no chart tab.
initializeUI ==
  LET global == computeGlobalTimeRange(plots')
      fs == [FilterState EXCEPT !.rMin = global[1], !.rMax = global[2]]
      first == IF plots'.unionKeys = <<>> THEN <<>> ELSE <<plots'.unionKeys[1]>>
  IN  /\ rangeMinT' = global[1]
      /\ rangeMaxT' = global[2]
      /\ activeTab' = first
      /\ view' = [table |-> rebuildAveragesTable(plots', fs.min, fs.rMin, fs.rMax),
                  tabs |-> plots'.unionKeys,
                  charts |-> IF first = <<>> THEN NoCharts(plots')
                             ELSE renderTab(first[1], plots', NoCharts(plots'), fs),
                  blocksTabs |->
                    setActiveTab(renderBlocksTabs(getVisibleUnionKeys(plots', fs.min), fs.key),
                                 IF first = <<>> THEN AllKey ELSE first[1]),
                  blocksList |-> renderBlocksList(buildBlocksData(Named(experiments, stats')), fs),
                  timeline |-> updateTimelineHandles(global, global[1], global[2], view.timeline)]

\* The rest of loadAndInit once the payloads are at hand (app.js:1611-1621,
\* 1637-1661): decode each, build the union and the blocks, initialise the
\* page with no size filter. A call that throws rejects the promise and
\* leaves the page as it was.
DecodeAndInit ==
  /\ stats' = StatsCalls(experiments)
  /\ plots' = IF AllOk(stats') THEN buildPlotsData(Named(experiments, stats')) ELSE NoPlots
  /\ sizeFiltered' = IF AllOk(stats') THEN SizeFiltered(plots', 0) ELSE <<>>
  /\ pc' = IF AllOk(stats') THEN "ready" ELSE "failed"
  /\ IF AllOk(stats') THEN initializeUI
     ELSE UNCHANGED <<rangeMinT, rangeMaxT, activeTab, view>>
  /\ UNCHANGED <<experiments, minBlockSizeBytes, trimEdges, averagingWindowSec, dragging,
                 testVars, blocksFilterKey, request, prepareTimer>>

\* loadAndInit (app.js:1595-1662) without start and end in the query: the
\* records.js files of the names are loaded, the status names them while
\* this lasts and is hidden before initializeUI.
LoadAndInit ==
  /\ pc = "loading"
  /\ request = <<>>
  /\ DecodeAndInit
  /\ status' = LET loading == setStatus(status, "Loading local logs", 0, "loading")
               IN  IF AllOk(stats') THEN setStatus(loading, "", 0, "") ELSE loading

(***************************************************************************)
(* loadAndInit with start and end in the query (app.js:1596-1622) and      *)
(* fetchServerPayload (app.js:1522-1593). experiments holds the name of    *)
(* the query and the payload the server answers with.                      *)
(***************************************************************************)
\* 3600000 ms, 15000 ms of preparation expected per hour of the range, and
\* the period of the timer in ms (app.js:1527, 1538).
HourMs == 3600000
PrepareMsPerHour == 15000
TimerPeriodMs == 500
MaxPct == 99

\* expectedPrepareMs (app.js:1526-1527).
ExpectedPrepareMs(durationMs) ==
  IF durationMs # 0 THEN RMul(RDiv(Num(durationMs), Num(HourMs)), Num(PrepareMsPerHour))
  ELSE Num(0)

\* pct of the timer's callback (app.js:1534-1535) when elapsed ms have
\* passed.
PreparePct(elapsed, expectedPrepareMs) ==
  LET raw == RFloor(RMul(RDiv(Num(elapsed), expectedPrepareMs), Num(Hundred)))
  IN  IF raw > MaxPct THEN MaxPct ELSE raw

\* fetchServerPayload up to its await of fetch (app.js:1522-1542).
startFetch ==
  /\ pc = "loading"
  /\ request # <<>>
  /\ pc' = "fetching"
  /\ IF RLt(Num(0), ExpectedPrepareMs(request[1].durationMs))
     THEN /\ status' = setStatus(status, "Preparing... N%", 0, "loading")
          /\ prepareTimer' = <<0>>
     ELSE /\ status' = setStatus(status, "Preparing start .. end", 0, "loading")
          /\ prepareTimer' = <<>>
  /\ UNCHANGED <<experiments, stats, plots, minBlockSizeBytes, sizeFiltered, testVars,
                 pageVars, request>>

\* The callback of the interval timer (app.js:1533-1537); the n-th call
\* comes n periods after the start. At most MaxTicks calls are followed.
MaxTicks == 4

timerTick ==
  /\ prepareTimer # <<>>
  /\ prepareTimer[1] < MaxTicks
  /\ prepareTimer' = <<prepareTimer[1] + 1>>
  /\ status' = setStatus(status, "Preparing... N%",
                         PreparePct(prepareTimer'[1] * TimerPeriodMs,
                                    ExpectedPrepareMs(request[1].durationMs)),
                         "loading")
  /\ UNCHANGED <<experiments, stats, plots, minBlockSizeBytes, sizeFiltered, pc, testVars,
                 pageVars, request>>

\* Variant of fetchRejects that clears the timer before the error is shown.
fetchRejectsClearingTimer ==
  /\ pc = "fetching"
  /\ pc' = "fetch failed"
  /\ prepareTimer' = <<>>
  /\ status' = setStatus(status, "Failed to fetch", 0, "error")
  /\ UNCHANGED <<experiments, stats, plots, minBlockSizeBytes, sizeFiltered, testVars,
                 pageVars, request>>

\* fetch rejects (app.js:1543): the await throws, nothing after it runs, and
\* the catch of loadAndInit shows the error (app.js:1601-1604).
fetchRejects ==
  /\ pc = "fetching"
  /\ pc' = "fetch failed"
  /\ status' = setStatus(status, "Failed to fetch", 0, "error")
  /\ UNCHANGED <<experiments, stats, plots, minBlockSizeBytes, sizeFiltered, testVars,
                 pageVars, request, prepareTimer>>

\* fetch resolves (app.js:1543-1558): the timer is cleared; a response that
\* is not ok throws and the catch of loadAndInit shows the error, one that
\* is ok starts the download.
fetchResponds(ok) ==
  /\ pc = "fetching"
  /\ prepareTimer' = <<>>
  /\ pc' = IF ok THEN "downloading" ELSE "fetch failed"
  /\ status' = IF ok THEN setStatus(status, "Downloading...", 0, "loading")
               ELSE setStatus(status, "Request failed", 0, "error")
  /\ UNCHANGED <<experiments, stats, plots, minBlockSizeBytes, sizeFiltered, testVars,
                 pageVars, request>>

\* The body has arrived and parses (app.js:1560-1592, 1606-1621): the status
\* is hidden and the page is initialised.
downloadEnds ==
  /\ pc = "downloading"
  /\ DecodeAndInit
  /\ status' = setStatus(status, "", 0, "")

\* Values typed into the block-size control, in KB.
KbValues == {0, 1, 2, 3}

\* The page takes the active tab and the view of r.
Shows(r) ==
  /\ activeTab' = r.activeTab
  /\ view' = r.view

\* applyBlockSizeChange (app.js:1332-1339) with its rebuildAll.
applyBlockSizeChange(val) ==
  /\ pc = "ready"
  /\ LET maxKb == RCeil(RDiv(GlobalMaxBlockSize(plots), Num(Kilo)))
         v == IF val > maxKb THEN maxKb ELSE val
     IN  /\ minBlockSizeBytes' = v * Kilo
         /\ sizeFiltered' = SizeFiltered(plots, v * Kilo)
         /\ Shows(rebuildAll(plots, BlocksData, [FilterState EXCEPT !.min = v * Kilo],
                             view, activeTab))
  /\ UNCHANGED <<experiments, stats, plots, pc, testVars, loadVars, blocksFilterKey,
                 windowVars, controlVars, dragging>>

\* Values typed into the averaging control, in seconds.
AveragingValues == {0, 10, 700}
MaxAveraging == 600

\* applyAveragingChange (app.js:1319-1329): the active tab is drawn again.
applyAveragingChange(val) ==
  /\ pc = "ready"
  /\ LET v == IF val > MaxAveraging THEN MaxAveraging ELSE IF val < 0 THEN 0 ELSE val
     IN  /\ averagingWindowSec' = v
         /\ view' = IF activeTab = <<>> THEN view
                    ELSE [view EXCEPT !.charts =
                            renderTab(activeTab[1], plots, view.charts,
                                      [FilterState EXCEPT !.w = v])]
  /\ UNCHANGED <<experiments, stats, plots, minBlockSizeBytes, sizeFiltered, pc, testVars,
                 loadVars, blocksFilterKey,
                 windowVars, trimEdges, dragging, activeTab>>

\* The change handler of the trim checkbox (app.js:1342-1349).
changeTrim(checked) ==
  /\ pc = "ready"
  /\ trimEdges' = checked
  /\ view' = IF activeTab = <<>> THEN view
             ELSE [view EXCEPT !.charts =
                     renderTab(activeTab[1], plots, view.charts,
                               [FilterState EXCEPT !.trim = checked])]
  /\ UNCHANGED <<experiments, stats, plots, minBlockSizeBytes, sizeFiltered, pc, testVars,
                 loadVars, blocksFilterKey,
                 windowVars, averagingWindowSec, dragging, activeTab>>

\* A click on a tab button that is shown (app.js:1352-1360).
clickTab(key) ==
  /\ pc = "ready"
  /\ key \in Range(view.tabs)
  /\ activeTab' = <<key>>
  /\ view' = [view EXCEPT !.charts = renderTab(key, plots, view.charts, FilterState),
                          !.blocksTabs = setActiveTab(view.blocksTabs, key)]
  /\ UNCHANGED <<experiments, stats, plots, minBlockSizeBytes, sizeFiltered, pc, testVars,
                 loadVars, blocksFilterKey,
                 windowVars, controlVars, dragging>>

\* A click on a button of the blocks tabs (app.js:1419-1432): the key
\* becomes BLOCKS_FILTER_KEY, the buttons of the container are marked and
\* the list is drawn.
clickBlocksTab(key) ==
  /\ pc = "ready"
  /\ key \in Range(view.blocksTabs.keys)
  /\ blocksFilterKey' = key
  /\ view' = [view EXCEPT !.blocksTabs = Marked(view.blocksTabs, key),
                          !.blocksList =
                            renderBlocksList(BlocksData, [FilterState EXCEPT !.key = key])]
  /\ UNCHANGED <<experiments, stats, plots, minBlockSizeBytes, sizeFiltered, pc, testVars,
                 loadVars, windowVars, controlVars, dragging, activeTab>>

\* A click on the details tab "blocks" (app.js:1362-1378): the blocks tabs
\* and the blocks list are drawn again.
clickDetailsBlocks ==
  /\ pc = "ready"
  /\ view' = [view EXCEPT !.blocksTabs =
                            renderBlocksTabs(getVisibleUnionKeys(plots, minBlockSizeBytes),
                                             blocksFilterKey),
                          !.blocksList = renderBlocksList(BlocksData, FilterState)]
  /\ UNCHANGED <<experiments, stats, plots, minBlockSizeBytes, sizeFiltered, pc, testVars,
                 loadVars, blocksFilterKey, windowVars, controlVars, dragging, activeTab>>

\* Where the pointer stands on the track, as a share of its width.
TrackShares == {RNorm(1, 4), RNorm(3, 4)}

\* startDrag (app.js:846-853).
startDrag(handle) ==
  /\ pc = "ready"
  /\ dragging = <<>>
  /\ dragging' = <<handle>>
  /\ UNCHANGED <<experiments, stats, plots, minBlockSizeBytes, sizeFiltered, pc, testVars,
                 loadVars, blocksFilterKey,
                 windowVars, controlVars, activeTab, view>>

\* The window after the handle moved to t.
WindowAfterMove(handle, t) ==
  IF handle = "left" THEN <<MoveLeft(t, rangeMaxT), rangeMaxT>>
  ELSE <<rangeMinT, MoveRight(t, rangeMinT)>>

\* onMove (app.js:820-833) while a handle is dragged: the window and the
\* handles follow the pointer.
onMove(pct) ==
  /\ pc = "ready"
  /\ dragging # <<>>
  /\ LET global == computeGlobalTimeRange(plots)
         win == WindowAfterMove(dragging[1], TrackTime(global, pct))
     IN  /\ rangeMinT' = win[1]
         /\ rangeMaxT' = win[2]
         /\ view' = [view EXCEPT !.timeline =
                       updateTimelineHandles(global, win[1], win[2], view.timeline)]
  /\ UNCHANGED <<experiments, stats, plots, minBlockSizeBytes, sizeFiltered, pc, testVars,
                 loadVars, blocksFilterKey,
                 controlVars, dragging, activeTab>>

\* Variant of onEnd that draws nothing.
onEndWithoutRebuild ==
  /\ pc = "ready"
  /\ dragging # <<>>
  /\ dragging' = <<>>
  /\ UNCHANGED <<experiments, stats, plots, minBlockSizeBytes, sizeFiltered, pc, testVars,
                 loadVars, blocksFilterKey,
                 windowVars, controlVars, activeTab, view>>

\* onEnd (app.js:835-844) of a drag.
onEnd ==
  /\ pc = "ready"
  /\ dragging # <<>>
  /\ dragging' = <<>>
  /\ Shows(rebuildAll(plots, BlocksData, FilterState, view, activeTab))
  /\ UNCHANGED <<experiments, stats, plots, minBlockSizeBytes, sizeFiltered, pc, testVars,
                 loadVars, blocksFilterKey,
                 windowVars, controlVars>>

\* A click on the track (app.js:860-876): the nearer handle jumps to it.
clickTrack(pct) ==
  /\ pc = "ready"
  /\ LET global == computeGlobalTimeRange(plots)
         t == TrackTime(global, pct)
         win == WindowAfterMove(IF RLt(RAbs(RSub(t, rangeMinT)), RAbs(RSub(t, rangeMaxT)))
                                THEN "left" ELSE "right", t)
         r == rebuildAll(plots, BlocksData,
                         [FilterState EXCEPT !.rMin = win[1], !.rMax = win[2]],
                         [view EXCEPT !.timeline =
                            updateTimelineHandles(global, win[1], win[2], view.timeline)],
                         activeTab)
     IN  /\ rangeMinT' = win[1]
         /\ rangeMaxT' = win[2]
         /\ Shows(r)
  /\ UNCHANGED <<experiments, stats, plots, minBlockSizeBytes, sizeFiltered, pc, testVars,
                 loadVars, blocksFilterKey,
                 controlVars, dragging>>

\* Samples and ranks handed to percentile; a sample of one value also with
\* the rank 150.
SampleValues == {Num(-1), Num(0), Num(4), RNorm(1, 2)}
Ranks == {0, 25, 50, 66, 100}

\* No payload is loaded; a test is about to call percentile.
InitPercentile ==
  /\ experiments = <<>>
  /\ stats = <<>>
  /\ plots = NoPlots
  /\ minBlockSizeBytes = 0
  /\ sizeFiltered = <<>>
  /\ InitPage
  /\ InitLocal
  /\ pc = "testing"
  /\ ret = <<>>
  /\ \/ \E v \in SeqsUpTo(SampleValues, MaxSample) : \E p \in Ranks :
          call = <<[values |-> v, p |-> Num(p)]>>
     \/ \E x \in SampleValues : call = <<[values |-> <<x>>, p |-> Num(150)]>>

\* A call of percentile (app.js:59-69) returns.
CallPercentile ==
  /\ pc = "testing"
  /\ call # <<>>
  /\ ret = <<>>
  /\ ret' = <<[value |-> percentile(call[1].values, call[1].p),
               values |-> ValuesAfterPercentile(call[1].values)]>>
  /\ UNCHANGED <<experiments, stats, plots, minBlockSizeBytes, sizeFiltered, pc, call,
                 pageVars, loadVars>>

\* One experiment whose blocks spread over time.
InitChart ==
  /\ LoadsChartBlocks(MaxChartBlocks)
  /\ InitCommon

\* A test aggregates a raw series under the filter state of the page and
\* hands the outcome back to aggregatePoints (app.js:893-933) under the same
\* state; the window of the page holds every point of the outcome.
reapplyAggregate(k, i, kind) ==
  /\ pc = "ready"
  /\ call = <<>>
  /\ call' = <<[points |-> aggregatePoints(plots.plotsData[k].series[i].points[kind],
                                           averagingWindowSec,
                                           plots.plotsData[k].series[i].block_size_by_id,
                                           minBlockSizeBytes, rangeMinT, rangeMaxT, trimEdges),
                filter |-> FilterState]>>
  /\ ret' = <<aggregatePoints(call'[1].points, averagingWindowSec,
                              plots.plotsData[k].series[i].block_size_by_id,
                              minBlockSizeBytes, rangeMinT, rangeMaxT, trimEdges)>>
  /\ pc' = "testing"
  /\ UNCHANGED <<experiments, stats, plots, minBlockSizeBytes, sizeFiltered, pageVars,
                 loadVars>>

\* The series and sizes handed to a call of aggregatePoints or of
\* computeAveragesForPair under test: at most MaxSeries points in any order,
\* of a block of 2048 bytes and a block of 512 bytes.
MaxSeries == 3

SeriesPoints == {<<Num(0), Num(1), 1>>, <<Num(1), Num(2), 2>>, <<Num(500), Num(3), 1>>}

\* A test is about to call one of the two functions on a series, under some
\* filter state.
InitAggregate ==
  /\ experiments = <<>>
  /\ stats = <<>>
  /\ plots = NoPlots
  /\ sizeFiltered = <<>>
  /\ InitLocal
  /\ pc = "testing"
  /\ ret = <<>>
  /\ dragging = <<>>
  /\ activeTab = <<>>
  /\ view = NoView
  /\ blocksFilterKey = AllKey
  /\ minBlockSizeBytes \in {0, Kilo}
  /\ rangeMinT = Num(0)
  /\ rangeMaxT \in {Num(1), Num(500)}
  /\ trimEdges \in BOOLEAN
  /\ averagingWindowSec \in {0, DefaultAveraging}
  /\ \E k \in 0..MaxSeries : \E series \in [1..k -> SeriesPoints] :
       \E fn \in {"aggregatePoints", "computeAveragesForPair"} :
         call = <<[fn |-> fn,
                   pairData |-> [points |-> [kind \in SeriesKinds |-> series],
                                 block_size_by_id |-> [b \in {1, 2} |->
                                                         IF b = 1 THEN 2 * Kilo
                                                         ELSE Kilo \div 2]],
                   filter |-> FilterState]>>

\* The test calls aggregatePoints (app.js:893-933) on the block_size series
\* and then again on what the call has left of it.
callAggregate ==
  /\ pc = "testing"
  /\ ret = <<>>
  /\ call[1].fn = "aggregatePoints"
  /\ LET points == call[1].pairData.points["block_size"]
         sizes == call[1].pairData.block_size_by_id
         left == seriesAfterAggregate(points, minBlockSizeBytes)
     IN  ret' = <<[out |-> aggregatePoints(points, averagingWindowSec, sizes,
                                           minBlockSizeBytes, rangeMinT, rangeMaxT,
                                           trimEdges),
                   pairData |-> [call[1].pairData EXCEPT !.points["block_size"] = left],
                   again |-> aggregatePoints(left, averagingWindowSec, sizes,
                                             minBlockSizeBytes, rangeMinT, rangeMaxT,
                                             trimEdges)]>>
  /\ UNCHANGED <<experiments, stats, plots, minBlockSizeBytes, sizeFiltered, pc, call,
                 pageVars, loadVars>>

\* The test calls computeAveragesForPair (app.js:935-962) twice; no
\* statement of the function assigns to pairData or to one of its lists.
callAverages ==
  /\ pc = "testing"
  /\ ret = <<>>
  /\ call[1].fn = "computeAveragesForPair"
  /\ ret' = <<[out |-> computeAveragesForPair(call[1].pairData, minBlockSizeBytes,
                                              rangeMinT, rangeMaxT),
               pairData |-> call[1].pairData,
               again |-> computeAveragesForPair(call[1].pairData, minBlockSizeBytes,
                                                rangeMinT, rangeMaxT)]>>
  /\ UNCHANGED <<experiments, stats, plots, minBlockSizeBytes, sizeFiltered, pc, call,
                 pageVars, loadVars>>

\* Two experiments with blocks of two categories.
InitTable ==
  /\ \E pa \in TablePayloads(MaxTableBlocks, Len(TableShapes)) :
       \E pb \in TablePayloads(MaxTableBlocks, Len(TableShapes)) :
         experiments = Experiments(<<pa, pb>>)
  /\ InitCommon

\* Two experiments of few blocks, of the first half of the shapes.
InitPageOfTwo ==
  /\ \E pa \in TablePayloads(MaxPageBlocks, Len(TableShapes) \div 2) :
       \E pb \in TablePayloads(MaxPageBlocks, Len(TableShapes) \div 2) :
         experiments = Experiments(<<pa, pb>>)
  /\ InitCommon

\* Names of the query string: "run_2024_05_01_a" and "run_2024_05_01_b" of
\* 16 characters each, and "E" and "F".
RunPrefix == <<114, 117, 110, 95, 50, 48, 50, 52, 95, 48, 53, 95, 48, 49, 95>>

QueryNames == {Append(RunPrefix, 97), Append(RunPrefix, 98), ExpName(1), ExpName(2)}

\* Two names of the query string, each with the payload that records.js
\* files under it: a name given twice is given its payload twice.
InitNames ==
  /\ \E na \in QueryNames : \E nb \in QueryNames :
       \E pa \in TablePayloads(MaxTableBlocks, Len(TableShapes) \div 2) :
         \E pb \in TablePayloads(MaxTableBlocks, Len(TableShapes) \div 2) :
           /\ na = nb => pa = pb
           /\ experiments = <<[name |-> na, payload |-> pa], [name |-> nb, payload |-> pb]>>
  /\ InitCommon

\* The ranges asked of the server: none, six minutes, one hour (in ms).
RangeDurations == {0, 360000, 3600000}

\* start and end are in the query, with the name "E"; the server, if it
\* answers, answers with a payload of at most one block.
InitFetch ==
  /\ \E p \in TablePayloads(MaxPageBlocks, Len(TableShapes)) :
       experiments = Experiments(<<p>>)
  /\ \E d \in RangeDurations : request = <<[durationMs |-> d]>>
  /\ status = NoStatus
  /\ prepareTimer = <<>>
  /\ InitNoCall
  /\ InitPage
  /\ stats = <<>>
  /\ plots = NoPlots
  /\ minBlockSizeBytes = 0
  /\ sizeFiltered = <<>>
  /\ pc = "loading"

\* How long the observed range lasts, in microseconds: no time, a quarter of
\* a second, half a second, one, two and four seconds.
WindowSpansUs == {0, 250000, 500000, 1000000, 2000000, 4000000}

\* One experiment of one block with a compress record that ends when it
\* starts, alone (a single point) or followed by one that lasts as long as
\* the observed range.
InitWindow ==
  /\ \/ experiments = Experiments(<<Payload(<<>>, ValidTs0, TRUE,
                                             <<Entry(1, <<Rec(0, 0, 0, 0, -1, 0)>>)>>)>>)
     \/ \E span \in WindowSpansUs :
          experiments =
            Experiments(<<Payload(<<>>, ValidTs0, TRUE,
                                  <<Entry(1, <<Rec(0, 0, 0, 0, -1, 0),
                                               [Rec(0, 0, 0, 0, -1, 0)
                                                  EXCEPT !.duration_us = <<span>>]>>)>>)>>)
  /\ InitCommon

NextLoad == LoadAndInit

NextAggregate == callAggregate \/ callAverages

\* Drags of the handles and clicks on the track, the pointer anywhere from
\* one end of the track to the other.
NextWindow ==
  \/ LoadAndInit
  \/ \E handle \in {"left", "right"} : startDrag(handle)
  \/ \E pct \in TrackShares \cup {Num(0), Num(1)} : onMove(pct)
  \/ onEnd
  \/ \E pct \in TrackShares \cup {Num(0), Num(1)} : clickTrack(pct)

\* The request for the server's payload, its timer and its outcomes.
NextFetch ==
  \/ startFetch
  \/ timerTick
  \/ fetchRejects
  \/ \E ok \in BOOLEAN : fetchResponds(ok)
  \/ downloadEnds

\* Clicks on the chart tabs, the blocks tabs and the details tab, and
\* changes of the size threshold.
NextTabs ==
  \/ LoadAndInit
  \/ \E val \in {0, 1} : applyBlockSizeChange(val)
  \/ \E k \in Range(plots.unionKeys) : clickTab(k)
  \/ \E k \in Range(plots.unionKeys) \cup {AllKey, CustomKey} : clickBlocksTab(k)
  \/ clickDetailsBlocks

\* Every handler that changes the filter state or the active tab.
NextPage ==
  \/ LoadAndInit
  \/ \E val \in {0, 1} : applyBlockSizeChange(val)
  \/ applyAveragingChange(0)
  \/ changeTrim(FALSE)
  \/ \E k \in Range(plots.unionKeys) : clickTab(k)
  \/ clickTrack(RNorm(1, 4))
  \/ \E handle \in {"left", "right"} : startDrag(handle)
  \/ onMove(RNorm(3, 4))
  \/ onEnd

\* The page of two experiments under its controls and clicks on the track.
NextTable ==
  \/ LoadAndInit
  \/ \E val \in {0, 1, 3} : applyBlockSizeChange(val)
  \/ applyAveragingChange(0)
  \/ changeTrim(FALSE)
  \/ \E pct \in TrackShares : clickTrack(pct)

\* The page of one category under its controls and clicks on the track.
NextChart ==
  \/ LoadAndInit
  \/ \E val \in {0, 1} : applyBlockSizeChange(val)
  \/ \E val \in AveragingValues : applyAveragingChange(val)
  \/ \E checked \in BOOLEAN : changeTrim(checked)
  \/ clickTrack(RNorm(3, 4))
  \/ \E k \in Range(plots.unionKeys) : \E kind \in SeriesKinds : reapplyAggregate(k, 1, kind)

NextPercentile == CallPercentile

NextFilter == LoadAndInit \/ \E val \in KbValues : applyBlockSizeChange(val)

SpecDecode == InitDecode /\ [][NextLoad]_vars
SpecUnion == InitUnion /\ [][NextLoad]_vars
SpecFilter == InitFilter /\ [][NextFilter]_vars
SpecChart == InitChart /\ [][NextChart]_vars
SpecTable == InitTable /\ [][NextTable]_vars
SpecPage == InitPageOfTwo /\ [][NextPage]_vars
SpecNames == InitNames /\ [][NextLoad]_vars
SpecFetch == InitFetch /\ [][NextFetch]_vars
SpecWindow == InitWindow /\ [][NextWindow]_vars
SpecAggregate == InitAggregate /\ [][NextAggregate]_vars
SpecTabs == InitPageOfTwo /\ [][NextTabs]_vars
SpecPercentile == InitPercentile /\ [][NextPercentile]_vars

(***************************************************************************)
(* The payload as the properties read it: the records that carry both time *)
(* fields, their instants in seconds, their stage and category.            *)
(***************************************************************************)
Complete(rec) == rec.kind = "tuple" /\ rec.start_us # <<>> /\ rec.duration_us # <<>>

\* The complete records of a payload in payload order, each with the id and
\* the size pair of its block entry.
CompleteRecords(payload) ==
  Flatten([i \in 1..Len(payload.blocks) |->
             IF payload.blocks[i].kind # "tuple" THEN <<>>
             ELSE LET e == payload.blocks[i]
                      c == SelectSeq(e.records, Complete)
                  IN  [j \in 1..Len(c) |->
                         [block_id |-> e.block_id, rec |-> c[j],
                          size |-> At(e.size_map, c[j].size_idx)]]])

PayloadBlockIds(payload) ==
  {payload.blocks[i].block_id :
     i \in {j \in 1..Len(payload.blocks) : payload.blocks[j].kind = "tuple"}}

StartInstant(payload, rec) ==
  RDiv(Num(payload.ts0.ms * Thousand + rec.start_us[1]), Num(Million))

EndInstant(payload, rec) ==
  RDiv(Num(payload.ts0.ms * Thousand + rec.start_us[1] + rec.duration_us[1]), Num(Million))

\* The experiment's time origin: the least start or end instant.
TimeOrigin(payload) ==
  LET c == CompleteRecords(payload)
  IN  RMin([i \in 1..Len(c) |-> StartInstant(payload, c[i].rec)]
           \o [i \in 1..Len(c) |-> EndInstant(payload, c[i].rec)])

StageOf(payload, rec) == At(payload.maps.stage, rec.stage_idx)

CategoryKey(payload, rec) ==
  KeyOf([type |-> At(payload.maps.type, rec.type_idx),
         called_from |-> At(payload.maps.called_from, rec.called_from_idx)])

\* The complete records of block b in the category with the given key.
InCategory(payload, key, b) ==
  SelectSeq(CompleteRecords(payload),
            LAMBDA x : x.block_id = b /\ CategoryKey(payload, x.rec) = key)

OfStage(payload, recs, name) ==
  SelectSeq(recs, LAMBDA x : StageOf(payload, x.rec) = <<name>>)

\* The points of block b in one series of a category.
PointsOf(c, kind, b) == SelectSeq(c.points[kind], LAMBDA p : p[3] = b)

BroadcastKinds == {"broadcast_time_full", "broadcast_time_avg", "broadcast_time_66p"}

(***************************************************************************)
(* Properties of computeStatsFromCompressed.                               *)
(***************************************************************************)
\* C1: for every category and every block, the block has exactly one point in
\* each of broadcast_time_full, broadcast_time_avg and broadcast_time_66p if
\* its records in the category include a compress and a decompress record,
\* and otherwise no point in these three, in block_size or in
\* compression_percent.
BroadcastIffBothStages ==
  \A i \in 1..Len(stats) : \A n \in 1..Len(stats[i].type_called_from_stats) :
    \A b \in PayloadBlockIds(experiments[i].payload) :
      LET c == stats[i].type_called_from_stats[n]
          recs == InCategory(experiments[i].payload, c.key, b)
          both == /\ OfStage(experiments[i].payload, recs, "compress") # <<>>
                  /\ OfStage(experiments[i].payload, recs, "decompress") # <<>>
      IN  IF both
          THEN \A kind \in BroadcastKinds : Len(PointsOf(c, kind, b)) = 1
          ELSE \A kind \in BroadcastKinds \cup {"block_size", "compression_percent"} :
                 PointsOf(c, kind, b) = <<>>

\* A category of two blocks of which one has both stages and one has not.
OneOfTwoBlocksBroadcasts ==
  /\ pc = "ready"
  /\ \E n \in 1..Len(stats[1].type_called_from_stats) :
       LET c == stats[1].type_called_from_stats[n]
       IN  /\ c.num_blocks = 2
           /\ \A kind \in BroadcastKinds : Len(c.points[kind]) = 1
           /\ Len(c.points["compression_time"]) + Len(c.points["decompression_time"]) = 3

\* C2: for every block with compress and decompress records in a category,
\* with earliest_compress the least start of its compress records, the
\* broadcast_time_full value is the greatest decompress end minus
\* earliest_compress, the broadcast_time_avg value is the mean of the
\* decompress ends minus earliest_compress, the broadcast_time_66p value is
\* the 66th percentile of the decompress ends minus earliest_compress, and
\* each of the three points lies at earliest_compress minus the time origin.
BroadcastValues ==
  \A i \in 1..Len(stats) : \A n \in 1..Len(stats[i].type_called_from_stats) :
    \A b \in PayloadBlockIds(experiments[i].payload) :
      LET payload == experiments[i].payload
          c == stats[i].type_called_from_stats[n]
          recs == InCategory(payload, c.key, b)
          comp == OfStage(payload, recs, "compress")
          dec == OfStage(payload, recs, "decompress")
          ends == [j \in 1..Len(dec) |-> EndInstant(payload, dec[j].rec)]
          earliest == RMin([j \in 1..Len(comp) |-> StartInstant(payload, comp[j].rec)])
          x == RSub(earliest, TimeOrigin(payload))
      IN  (comp # <<>> /\ dec # <<>>) =>
            /\ PointsOf(c, "broadcast_time_full", b) =
                 << <<x, RSub(RMax(ends), earliest), b>> >>
            /\ PointsOf(c, "broadcast_time_avg", b) =
                 << <<x, RSub(RDiv(RSum(ends), Num(Len(ends))), earliest), b>> >>
            /\ PointsOf(c, "broadcast_time_66p", b) =
                 << <<x, percentile([j \in 1..Len(ends) |-> RSub(ends[j], earliest)],
                                    Num(SixtySix)), b>> >>

\* The block compressed at 10 and 12 and decompressed until 20, 25 and 30:
\* full 20, avg 15, 66p 16.6.
ExampleBlockBroadcast ==
  /\ pc = "ready"
  /\ experiments[1].payload = ExamplePayload
  /\ LET c == stats[1].type_called_from_stats[1]
     IN  /\ c.points["broadcast_time_full"] = << <<Num(0), Num(20), 1>> >>
         /\ c.points["broadcast_time_avg"] = << <<Num(0), Num(15), 1>> >>
         /\ c.points["broadcast_time_66p"] = << <<Num(0), RNorm(83, 5), 1>> >>

\* C3: a block has a block_size point and a compression_percent point in a
\* category only if one of its records there carries a positive original
\* size and one carries a positive compressed size; the block_size value is
\* such an original size, block_size_by_id maps the block to it, and the
\* compression_percent value is (original - compressed) / original.
SizePoints ==
  \A i \in 1..Len(stats) : \A n \in 1..Len(stats[i].type_called_from_stats) :
    \A b \in PayloadBlockIds(experiments[i].payload) :
      LET c == stats[i].type_called_from_stats[n]
          recs == InCategory(experiments[i].payload, c.key, b)
          pairs == {recs[j].size[1] : j \in {l \in 1..Len(recs) : recs[l].size # <<>>}}
          originals == {q[1][1] : q \in {r \in pairs : r[1] # <<>> /\ r[1][1] > 0}}
          compresseds == {q[2][1] : q \in {r \in pairs : r[2] # <<>> /\ r[2][1] > 0}}
          bs == PointsOf(c, "block_size", b)
          cp == PointsOf(c, "compression_percent", b)
      IN  /\ Len(bs) = Len(cp)
          /\ Len(bs) <= 1
          /\ bs # <<>> =>
               /\ originals # {}
               /\ compresseds # {}
               /\ \E o \in originals :
                    /\ bs[1][2] = Num(o)
                    /\ b \in DOMAIN c.block_size_by_id
                    /\ c.block_size_by_id[b] = o
                    /\ \E k \in compresseds : cp[1][2] = RDiv(Num(o - k), Num(o))
                    /\ cp[1][1] = bs[1][1]

\* A block whose sizes come from two records: 512 bytes compressed to 256.
SizesFromTwoRecords ==
  /\ pc = "ready"
  /\ \E n \in 1..Len(stats[1].type_called_from_stats) :
       LET c == stats[1].type_called_from_stats[n]
       IN  /\ Len(c.points["block_size"]) = 1
           /\ c.points["block_size"][1][2] = Num(512)
           /\ c.points["compression_percent"][1][2] = RNorm(1, 2)
           /\ c.block_size_by_id[c.points["block_size"][1][3]] = 512

\* C4: every point of the seven series of every category and every start and
\* end of every block-index entry and record lies at an offset >= 0 from the
\* experiment's time origin, the least decoded start or end instant (so one
\* of them lies at 0; a compression_time or decompression_time point lies at
\* its record's end minus the origin), and every series ascends in time.
OffsetsFromOrigin ==
  \A i \in 1..Len(stats) :
    /\ \A n \in 1..Len(stats[i].type_called_from_stats) : \A kind \in SeriesKinds :
         LET pts == stats[i].type_called_from_stats[n].points[kind]
         IN  /\ \A j \in 1..Len(pts) : RLe(Num(0), pts[j][1])
             /\ \A j \in 1..(Len(pts) - 1) : RLe(pts[j][1], pts[j + 1][1])
    /\ \A m \in 1..Len(stats[i].blocks) :
         LET e == stats[i].blocks[m]
         IN  /\ RLe(Num(0), e.start_sec)
             /\ RLe(Num(0), e.end_sec)
             /\ \A j \in 1..Len(e.records) :
                  /\ RLe(Num(0), e.records[j].start_sec)
                  /\ RLe(Num(0), e.records[j].end_sec)
    /\ stats[i].hasBlocks =>
         \E m \in 1..Len(stats[i].blocks) : \E j \in 1..Len(stats[i].blocks[m].records) :
           \/ stats[i].blocks[m].records[j].start_sec = Num(0)
           \/ stats[i].blocks[m].records[j].end_sec = Num(0)
    /\ \A n \in 1..Len(stats[i].type_called_from_stats) :
         \A name \in {"compress", "decompress"} :
           LET payload == experiments[i].payload
               c == stats[i].type_called_from_stats[n]
               pts == c.points[IF name = "compress" THEN "compression_time"
                               ELSE "decompression_time"]
               recs == SelectSeq(CompleteRecords(payload),
                                 LAMBDA x : /\ CategoryKey(payload, x.rec) = c.key
                                            /\ StageOf(payload, x.rec) = <<name>>)
           IN  {pts[j][1] : j \in 1..Len(pts)} =
                 {RSub(EndInstant(payload, recs[j].rec), TimeOrigin(payload)) :
                    j \in 1..Len(recs)}

\* The origin is the end of a record that ends before it starts, and a series
\* lists a point of the second block before a point of the first.
OriginIsAnEndAndSeriesResorted ==
  /\ pc = "ready"
  /\ \E m \in 1..Len(stats[1].blocks) : \E j \in 1..Len(stats[1].blocks[m].records) :
       LET r == stats[1].blocks[m].records[j]
       IN  r.end_sec = Num(0) /\ RLt(r.end_sec, r.start_sec)
  /\ \E n \in 1..Len(stats[1].type_called_from_stats) : \E kind \in SeriesKinds :
       LET pts == stats[1].type_called_from_stats[n].points[kind]
       IN  Len(pts) = 2 /\ pts[1][3] = 2 /\ pts[2][3] = 1 /\ RLt(pts[1][1], pts[2][1])

\* The empty-stats result for experiment i: the payload's own name or else
\* the display name, no time origin, no category.
IsEmptySentinel(i) ==
  /\ Len(stats) >= i
  /\ stats[i].status = "ok"
  /\ stats[i].experiment_name =
       (IF experiments[i].payload.experiment_name # <<>>
        THEN experiments[i].payload.experiment_name[1] ELSE experiments[i].name)
  /\ stats[i].earliest_ts_global = <<>>
  /\ stats[i].type_called_from_stats = <<>>

\* C5: computeStatsFromCompressed returns the empty-stats result without
\* raising whenever blocks is not a list, ts0 is missing or unparseable, or
\* no record is decoded (every record is skipped, or there is none).
EmptySentinelWithoutRaising ==
  pc # "loading" =>
    \A i \in 1..Len(experiments) :
      (\/ ~experiments[i].payload.blocksIsList
       \/ experiments[i].payload.ts0.kind # "valid"
       \/ CompleteRecords(experiments[i].payload) = <<>>) => IsEmptySentinel(i)

\* C6: computeStatsFromCompressed never raises, whatever the payload: null,
\* scalar or incomplete block entries and records included.
NeverRaises ==
  /\ pc # "failed"
  /\ \A i \in 1..Len(stats) : stats[i].status # "raised"

\* The payload without the records that lack start_us or duration_us.
WithoutIncomplete(payload) ==
  [payload EXCEPT !.blocks =
     [i \in 1..Len(payload.blocks) |->
        IF payload.blocks[i].kind # "tuple" THEN payload.blocks[i]
        ELSE [payload.blocks[i] EXCEPT !.records =
                SelectSeq(payload.blocks[i].records,
                          LAMBDA r : r.kind = "null" \/ Complete(r))]]]

\* C7: a record without start_us or duration_us is skipped entirely: the
\* result is the result for the payload without such records (no group, no
\* point, no block-index record, no effect on the time origin), and every
\* complete record of a block is decoded into the block index whatever
\* incomplete records stand beside it.
IncompleteRecordsLeaveNoTrace ==
  \A i \in 1..Len(stats) :
    /\ stats[i] = computeStatsFromCompressed(WithoutIncomplete(experiments[i].payload),
                                             <<experiments[i].name>>)
    /\ stats[i].hasBlocks =>
         \A b \in PayloadBlockIds(experiments[i].payload) :
           LET own == SelectSeq(CompleteRecords(experiments[i].payload),
                                LAMBDA x : x.block_id = b)
               listed == SelectSeq(stats[i].blocks, LAMBDA e : e.block_id = b)
           IN  IF own = <<>> THEN listed = <<>>
               ELSE Len(listed) = 1 /\ Len(listed[1].records) = Len(own)

\* A block whose first record lacks a time field and whose later record is
\* decoded.
CompleteRecordBehindIncomplete ==
  /\ pc = "ready"
  /\ stats[1].hasBlocks
  /\ \E m \in 1..Len(experiments[1].payload.blocks) :
       LET e == experiments[1].payload.blocks[m]
       IN  /\ e.kind = "tuple"
           /\ Len(e.records) >= 2
           /\ e.records[1].kind = "tuple"
           /\ ~Complete(e.records[1])
           /\ Complete(e.records[2])
           /\ \E l \in 1..Len(stats[1].blocks) : stats[1].blocks[l].block_id = e.block_id

(***************************************************************************)
(* Properties of buildPlotsData.                                           *)
(***************************************************************************)
\* C8: the union keys are exactly the category keys of all experiments, each
\* once; under every union key the list of slots is as long as the list of
\* experiments and slot i carries the name and the time origin of experiment
\* i, with that experiment's points of every series kind, or with no points
\* when the experiment lacks the key.
UnionSlotsAligned ==
  pc = "ready" =>
    /\ Range(plots.unionKeys) =
         UNION {{stats[i].type_called_from_stats[n].key :
                   n \in 1..Len(stats[i].type_called_from_stats)} : i \in 1..Len(stats)}
    /\ Cardinality(Range(plots.unionKeys)) = Len(plots.unionKeys)
    /\ \A k \in Range(plots.unionKeys) :
         /\ Len(plots.plotsData[k].series) = Len(experiments)
         /\ \A i \in 1..Len(experiments) :
              LET slot == plots.plotsData[k].series[i]
                  cats == stats[i].type_called_from_stats
                  own == {n \in 1..Len(cats) : cats[n].key = k}
              IN  /\ slot.name = experiments[i].name
                  /\ slot.base_ts = stats[i].earliest_ts_global
                  /\ \A kind \in SeriesKinds :
                       IF own = {} THEN slot.points[kind] = <<>>
                       ELSE \A n \in own : slot.points[kind] = cats[n].points[kind]

\* The first experiment has data but lacks a key the second one has.
PlaceholderForFirstExperiment ==
  /\ pc = "ready"
  /\ Len(experiments) = 2
  /\ stats[1].earliest_ts_global # <<>>
  /\ \E k \in Range(plots.unionKeys) :
       /\ \A n \in 1..Len(stats[1].type_called_from_stats) :
            stats[1].type_called_from_stats[n].key # k
       /\ plots.plotsData[k].series[1].base_ts = stats[1].earliest_ts_global
       /\ plots.plotsData[k].series[1].points["compression_time"] = <<>>
       /\ plots.plotsData[k].series[2].points["compression_time"] # <<>>

\* The text a type or an origin is compared as: empty when absent.
TextOf(opt) == IF opt = <<>> THEN <<>> ELSE opt[1]

\* C9: the union key list ascends by type and, within a type, by origin, an
\* absent origin before every non-empty origin, in whatever order the
\* experiments and their categories were supplied.
UnionKeysSorted ==
  pc = "ready" =>
    \A a, b \in 1..Len(plots.unionKeys) :
      a < b =>
        LET ma == plots.unionMap[plots.unionKeys[a]]
            mb == plots.unionMap[plots.unionKeys[b]]
        IN  \/ StrLt(TextOf(ma.type), TextOf(mb.type))
            \/ /\ TextOf(ma.type) = TextOf(mb.type)
               /\ \/ StrLt(TextOf(ma.called_from), TextOf(mb.called_from))
                  \/ TextOf(ma.called_from) = TextOf(mb.called_from)
               /\ mb.called_from = <<>> => ma.called_from = <<>>

\* Three categories supplied against their order: type b first, and the
\* origin x before the absent origin of type a.
KeysSuppliedOutOfOrder ==
  /\ pc = "ready"
  /\ Len(plots.unionKeys) = 3
  /\ stats[1].type_called_from_stats # <<>>
  /\ stats[1].type_called_from_stats[1].type = <<TypeB>>
  /\ \E i \in 1..Len(stats) : \E n \in 1..Len(stats[i].type_called_from_stats) :
       /\ stats[i].type_called_from_stats[n].called_from = <<OriginX>>
       /\ \A j \in 1..i : \A l \in 1..Len(stats[j].type_called_from_stats) :
            (j < i \/ l < n) =>
              stats[j].type_called_from_stats[l].type # <<TypeA>>
  /\ plots.unionMap[plots.unionKeys[1]].called_from = <<>>
  /\ plots.unionMap[plots.unionKeys[2]].called_from = <<OriginX>>
  /\ plots.unionMap[plots.unionKeys[3]].type = <<TypeB>>

(***************************************************************************)
(* Properties of filterByBlockSize.                                        *)
(***************************************************************************)
\* C10 as stated: with a minimum above 0 the filter removes exactly the
\* points whose block id maps to a size below the minimum and keeps all
\* others in order; with minimum 0 it returns the series unchanged.
FilterRemovesOnlySmallerBlocks ==
  pc = "ready" =>
    \A k \in Range(plots.unionKeys) : \A i \in 1..Len(experiments) :
      \A kind \in SeriesKinds :
        LET raw == plots.plotsData[k].series[i].points[kind]
            sizes == plots.plotsData[k].series[i].block_size_by_id
        IN  sizeFiltered[k][i][kind] =
              IF minBlockSizeBytes = 0 THEN raw
              ELSE SelectSeq(raw, LAMBDA p : ~(/\ p[3] \in DOMAIN sizes
                                               /\ sizes[p[3]] < minBlockSizeBytes))

\* C10: with a minimum above 0 the filter removes exactly the points whose
\* block id has no size in the lookup or maps to a size below the minimum,
\* and keeps all others in order; with minimum 0 it returns the series
\* unchanged.
FilterRemovesSmallerAndUnsizedBlocks ==
  pc = "ready" =>
    \A k \in Range(plots.unionKeys) : \A i \in 1..Len(experiments) :
      \A kind \in SeriesKinds :
        LET raw == plots.plotsData[k].series[i].points[kind]
            sizes == plots.plotsData[k].series[i].block_size_by_id
        IN  sizeFiltered[k][i][kind] =
              IF minBlockSizeBytes = 0 THEN raw
              ELSE SelectSeq(raw, LAMBDA p : ~(\/ p[3] \notin DOMAIN sizes
                                               \/ sizes[p[3]] < minBlockSizeBytes))

\* With a minimum above 0, a series loses the point of a block without size
\* and keeps the point of a block as large as the minimum; another loses the
\* point of a smaller block.
FilterDropsUnsizedKeepsLarge ==
  /\ pc = "ready"
  /\ minBlockSizeBytes > 0
  /\ \E k \in Range(plots.unionKeys) : \E kind \in SeriesKinds :
       LET raw == plots.plotsData[k].series[1].points[kind]
           sizes == plots.plotsData[k].series[1].block_size_by_id
       IN  /\ \E j \in 1..Len(raw) : raw[j][3] \notin DOMAIN sizes
           /\ \E j \in 1..Len(raw) :
                raw[j][3] \in DOMAIN sizes /\ sizes[raw[j][3]] = minBlockSizeBytes
           /\ sizeFiltered[k][1][kind] # <<>>
           /\ Len(sizeFiltered[k][1][kind]) < Len(raw)

(***************************************************************************)
(* Properties of percentile.                                               *)
(***************************************************************************)
\* The k-th smallest value of a sample (k = 1 is the least), by counting.
Ranked(values, k) ==
  CHOOSE x \in Range(values) :
    /\ Cardinality({i \in 1..Len(values) : RLt(values[i], x)}) < k
    /\ k <= Cardinality({i \in 1..Len(values) : RLe(values[i], x)})

\* C19: percentile(values, 0) is the least and percentile(values, 100) the
\* greatest value of a non-empty sample, and percentile of a sample of one
\* value is that value for every p.
PercentileEnds ==
  ret # <<>> =>
    LET values == call[1].values
        p == call[1].p
    IN  /\ (values # <<>> /\ p = Num(0)) =>
             /\ ret[1].value \in Range(values)
             /\ \A i \in 1..Len(values) : RLe(ret[1].value, values[i])
        /\ (values # <<>> /\ p = Num(Hundred)) =>
             /\ ret[1].value \in Range(values)
             /\ \A i \in 1..Len(values) : RLe(values[i], ret[1].value)
        /\ Len(values) = 1 => ret[1].value = values[1]

\* percentile(values, 0) of an unsorted sample of three has returned its
\* least value, which stood last.
LeastOfUnsortedSample ==
  /\ ret # <<>>
  /\ call[1].p = Num(0)
  /\ Len(call[1].values) = 3
  /\ RLt(call[1].values[3], call[1].values[1])
  /\ RLt(call[1].values[3], call[1].values[2])
  /\ ret[1].value = call[1].values[3]

\* C20: percentile of an empty sample is 0; for n >= 2 values and p in
\* [0, 100] it is the linear interpolation between the floor(pos)-th and the
\* ceil(pos)-th value of the ascending order, pos = (p / 100) * (n - 1), with
\* the fraction of pos as weight; the caller's sequence keeps its order.
PercentileInterpolates ==
  ret # <<>> =>
    LET values == call[1].values
        p == call[1].p
        n == Len(values)
        pos == RDiv(RMul(p, Num(n - 1)), Num(Hundred))
        lo == Ranked(values, RFloor(pos) + 1)
        hi == Ranked(values, RCeil(pos) + 1)
        frac == RSub(pos, Num(RFloor(pos)))
    IN  /\ n = 0 => ret[1].value = Num(0)
        /\ (n >= 2 /\ RLe(Num(0), p) /\ RLe(p, Num(Hundred))) =>
             ret[1].value = RAdd(lo, RMul(RSub(hi, lo), frac))
        /\ ret[1].values = values

\* The 66th percentile of an unsorted sample of three lies strictly between
\* its middle and its greatest value.
InterpolatedBetweenRanks ==
  /\ ret # <<>>
  /\ call[1].p = Num(SixtySix)
  /\ Len(call[1].values) = 3
  /\ RLt(call[1].values[2], call[1].values[1])
  /\ RLt(Ranked(call[1].values, 2), ret[1].value)
  /\ RLt(ret[1].value, Ranked(call[1].values, 3))
  /\ ret[1].values = call[1].values

(***************************************************************************)
(* Properties of the charts.                                               *)
(***************************************************************************)
\* The raw points of a series as plotSeriesMulti scales them.
ScaledRaw(k, i, kind) ==
  LET raw == plots.plotsData[k].series[i].points[kind]
      scale == IF kind = "compression_percent" THEN 100
               ELSE IF kind \in {"compression_time", "decompression_time"} THEN 1000 ELSE 1
  IN  [j \in 1..Len(raw) |-> <<raw[j][1], RMul(raw[j][2], Num(scale)), raw[j][3]>>]

\* A point of the series of experiment i under key k survives the size
\* filter and the time window of the page.
Survives(k, i, p) ==
  LET sizes == plots.plotsData[k].series[i].block_size_by_id
  IN  /\ minBlockSizeBytes > 0 =>
           Len(p) >= 3 /\ p[3] \in DOMAIN sizes /\ sizes[p[3]] >= minBlockSizeBytes
      /\ RLe(rangeMinT, p[1]) /\ RLe(p[1], rangeMaxT)

Surviving(k, i, kind) == SelectSeq(ScaledRaw(k, i, kind), LAMBDA p : Survives(k, i, p))

\* The least and the greatest time of a non-empty list of points.
LeastTime(points) ==
  CHOOSE t \in {points[j][1] : j \in 1..Len(points)} :
    \A j \in 1..Len(points) : RLe(t, points[j][1])

GreatestTime(points) ==
  CHOOSE t \in {points[j][1] : j \in 1..Len(points)} :
    \A j \in 1..Len(points) : RLe(points[j][1], t)

\* The surviving points between local minimum + 300 s and local maximum -
\* 120 s.
Inner(points) ==
  SelectSeq(points,
            LAMBDA p : /\ RLe(RAdd(LeastTime(points), Num(300)), p[1])
                       /\ RLe(p[1], RSub(GreatestTime(points), Num(120))))

\* The tab of key k is drawn under the filter state of the page: the key is
\* visible and active.
Drawn(k) ==
  /\ pc = "ready"
  /\ activeTab = <<k>>
  /\ k \in Range(view.tabs)
  /\ \E i \in 1..Len(experiments) :
       \E j \in 1..Len(plots.plotsData[k].series[i].points["block_size"]) :
         RLe(Num(minBlockSizeBytes), plots.plotsData[k].series[i].points["block_size"][j][2])

\* C11: without bucketing, a drawn series holds, with trim_edges, exactly the
\* surviving points at times from local minimum + 300 to local maximum - 120
\* (none when that range is empty) and, without trim_edges, every surviving
\* point.
TrimKeepsInnerRange ==
  \A k \in Range(plots.unionKeys) :
    (Drawn(k) /\ averagingWindowSec = 0) =>
      \A i \in 1..Len(experiments) : \A kind \in SeriesKinds :
        view.charts[k][1][kind][i] =
          IF trimEdges THEN Inner(Surviving(k, i, kind)) ELSE Surviving(k, i, kind)

\* A series spans 1000 s; trimmed, it keeps the point at 300 s and loses the
\* points at 0 s and 1000 s.
TrimmedSeriesOfThousandSeconds ==
  \E k \in Range(plots.unionKeys) : \E kind \in SeriesKinds :
    /\ Drawn(k)
    /\ averagingWindowSec = 0
    /\ trimEdges
    /\ LET all == Surviving(k, 1, kind)
       IN  /\ Len(all) = 3
           /\ all[1][1] = Num(0)
           /\ all[2][1] = Num(300)
           /\ all[3][1] = Num(1000)
           /\ view.charts[k][1][kind][1] = <<all[2]>>

\* The surviving points that trimming leaves.
Kept(k, i, kind) ==
  IF trimEdges THEN Inner(Surviving(k, i, kind)) ELSE Surviving(k, i, kind)

\* The bucket b of width w with b * w <= t < (b + 1) * w.
BucketIndex(p, w) ==
  LET q == RFloor(p[1]) \div w
  IN  CHOOSE b \in {q - 1, q, q + 1} :
        RLe(Num(b * w), p[1]) /\ RLt(p[1], Num((b + 1) * w))

Mean(xs) == RDiv(RSum(xs), Num(Len(xs)))

\* C12: with a bucket width above 0, a drawn series holds one point per
\* non-empty bucket floor(t / w) of the kept points, at the mean time and
\* with the mean value of the bucket's points, by ascending bucket; with
\* width 0 it holds the kept points themselves.
BucketsHoldMeans ==
  \A k \in Range(plots.unionKeys) :
    Drawn(k) =>
      \A i \in 1..Len(experiments) : \A kind \in SeriesKinds :
        LET kept == Kept(k, i, kind)
            out == view.charts[k][1][kind][i]
            w == averagingWindowSec
            idx == {BucketIndex(kept[j], w) : j \in 1..Len(kept)}
        IN  IF w = 0 THEN out = kept
            ELSE /\ Len(out) = Cardinality(idx)
                 /\ \A b \in idx :
                      LET members == SelectSeq(kept, LAMBDA p : BucketIndex(p, w) = b)
                      IN  out[Cardinality({c \in idx : c <= b})] =
                            <<Mean([j \in 1..Len(members) |-> members[j][1]]),
                              Mean([j \in 1..Len(members) |-> members[j][2]])>>

\* Three kept points fall into two buckets; the first drawn point stands
\* between the times of two of them with a value that none of them has.
TwoPointsShareABucket ==
  \E k \in Range(plots.unionKeys) : \E kind \in SeriesKinds :
    /\ Drawn(k)
    /\ averagingWindowSec > 0
    /\ LET kept == Kept(k, 1, kind)
           out == view.charts[k][1][kind][1]
       IN  /\ Len(kept) = 3
           /\ Len(out) = 2
           /\ RLt(kept[1][1], out[1][1]) /\ RLt(out[1][1], kept[2][1])
           /\ \A j \in 1..3 : out[1][2] # kept[j][2]

\* A test has handed a series aggregated under the present filter state back
\* to aggregatePoints, with a window that holds all its points.
Reapplied ==
  /\ pc = "testing"
  /\ call # <<>>
  /\ ret # <<>>
  /\ call[1].filter = FilterState
  /\ \A j \in 1..Len(call[1].points) :
       RLe(rangeMinT, call[1].points[j][1]) /\ RLe(call[1].points[j][1], rangeMaxT)

\* C13 as stated: aggregatePoints applied to its own output under the same
\* filter state returns that output.
AggregateIdempotent == Reapplied => ret[1] = call[1].points

\* C13: aggregatePoints applied to its own output under the same filter
\* state returns that output exactly when the output is empty, or trim_edges
\* is off and the size threshold or the bucket width is 0: the edges are
\* trimmed again, and bucket means carry no block id for the size filter.
AggregateIdempotentUntrimmed ==
  Reapplied =>
    (ret[1] = call[1].points <=>
       \/ call[1].points = <<>>
       \/ ~trimEdges /\ (minBlockSizeBytes = 0 \/ averagingWindowSec = 0))

\* An untrimmed series of several bucket means comes back as it was.
BucketMeansComeBack ==
  /\ Reapplied
  /\ ~trimEdges
  /\ averagingWindowSec > 0
  /\ Len(call[1].points) >= 2
  /\ ret[1] = call[1].points

(***************************************************************************)
(* Properties of the summary table.                                        *)
(***************************************************************************)
\* The raw points of a series that pass the size filter and lie inside the
\* window of the page.
Counted(k, i, kind) ==
  SelectSeq(plots.plotsData[k].series[i].points[kind], LAMBDA p : Survives(k, i, p))

MeanValue(points) ==
  IF points = <<>> THEN Num(0) ELSE Mean([j \in 1..Len(points) |-> points[j][2]])

ExpectedAverages(k, i) ==
  [num_blocks |-> Num(Len(Counted(k, i, "block_size"))),
   avg_block_size_bytes |-> MeanValue(Counted(k, i, "block_size")),
   avg_compression_percent |-> MeanValue(Counted(k, i, "compression_percent")),
   avg_broadcast_time_avg_s |-> MeanValue(Counted(k, i, "broadcast_time_avg")),
   avg_broadcast_time_full_s |-> MeanValue(Counted(k, i, "broadcast_time_full")),
   avg_broadcast_time_66p_s |-> MeanValue(Counted(k, i, "broadcast_time_66p")),
   avg_compression_time_s |-> MeanValue(Counted(k, i, "compression_time")),
   avg_decompression_time_s |-> MeanValue(Counted(k, i, "decompression_time"))]

\* C14: whatever trim_edges and the bucket width are, the averages of a
\* category and experiment count exactly the raw points that pass the size
\* filter and lie inside the closed window: num_blocks is the number of such
\* block_size points, every average the mean of the counted values, 0 when
\* there is none.
AveragesOverCountedPoints ==
  pc = "ready" =>
    \A k \in Range(view.table.columns) : \A i \in 1..Len(experiments) :
      view.table.avgs[k][i] = ExpectedAverages(k, i)

\* Without trimming and bucketing, an experiment has two blocks of a
\* category inside the window, one of them too small: its cells count and
\* average the other one; the blocks of another experiment are all too
\* small: its cells show 0.
AverageLeavesOutSmallBlocks ==
  /\ pc = "ready"
  /\ ~trimEdges
  /\ averagingWindowSec = 0
  /\ Len(experiments) = 2
  /\ \E k \in Range(view.table.columns) :
       /\ Len(plots.plotsData[k].series[1].points["block_size"]) = 2
       /\ Len(Counted(k, 1, "block_size")) = 1
       /\ \E p \in Range(plots.plotsData[k].series[1].points["block_size"]) :
            RLe(rangeMinT, p[1]) /\ RLe(p[1], rangeMaxT) /\ RLt(p[2], Num(minBlockSizeBytes))
       /\ view.table.avgs[k][1]["num_blocks"] = Num(1)
       /\ view.table.avgs[k][1]["avg_block_size_bytes"] = Counted(k, 1, "block_size")[1][2]
       /\ RLt(Num(0), view.table.avgs[k][1]["avg_compression_time_s"])
  /\ \E k \in Range(view.table.columns) :
       /\ plots.plotsData[k].series[2].points["block_size"] # <<>>
       /\ view.table.avgs[k][2]["num_blocks"] = Num(0)
       /\ view.table.avgs[k][2]["avg_block_size_bytes"] = Num(0)

\* Experiment i has a block_size point under key k that survives the size
\* filter.
HasSurvivingSize(k, i) ==
  \E p \in Range(plots.plotsData[k].series[i].points["block_size"]) :
    minBlockSizeBytes > 0 => RLe(Num(minBlockSizeBytes), p[2])

\* The page shows what initializeUI drew: every tab button, no size filter,
\* the whole time range.
AsLoaded ==
  /\ view.tabs = plots.unionKeys
  /\ minBlockSizeBytes = 0
  /\ <<rangeMinT, rangeMaxT>> = computeGlobalTimeRange(plots)

\* C15 as stated: a category is hidden from the tabs and the table as soon as
\* some experiment has no surviving block_size point under it.
HiddenWhenOneExperimentHasNone ==
  pc = "ready" =>
    \A k \in Range(plots.unionKeys) :
      (\E i \in 1..Len(experiments) : ~HasSurvivingSize(k, i)) =>
        k \notin Range(view.table.columns) /\ k \notin Range(view.tabs)

\* C15: a category is a column of the summary table exactly when some
\* experiment has a block_size point under it that survives the size filter,
\* whatever the other experiments have; its chart tab is shown under the
\* same condition, except that the page as loaded shows every tab.
HiddenWhenNoExperimentHasAny ==
  pc = "ready" =>
    \A k \in Range(plots.unionKeys) :
      LET some == \E i \in 1..Len(experiments) : HasSurvivingSize(k, i)
      IN  /\ k \in Range(view.table.columns) <=> some
          /\ ~AsLoaded => (k \in Range(view.tabs) <=> some)

\* Under a size threshold, one category stays in the tabs and the table
\* though the first experiment's blocks are all too small, because the second
\* has one large enough; another category, too small in both, is hidden.
ShownForTheOtherExperiment ==
  /\ pc = "ready"
  /\ minBlockSizeBytes > 0
  /\ Len(experiments) = 2
  /\ \E k \in Range(plots.unionKeys) :
       /\ plots.plotsData[k].series[1].points["block_size"] # <<>>
       /\ ~HasSurvivingSize(k, 1)
       /\ HasSurvivingSize(k, 2)
       /\ k \in Range(view.table.columns)
       /\ k \in Range(view.tabs)
  /\ \E k \in Range(plots.unionKeys) :
       /\ plots.plotsData[k].series[1].points["block_size"] # <<>>
       /\ plots.plotsData[k].series[2].points["block_size"] # <<>>
       /\ k \notin Range(view.table.columns)
       /\ k \notin Range(view.tabs)

\* The averages of a metric under key k, by experiment, and the classes of
\* their cells.
CellValues(k, metric) ==
  [i \in 1..Len(experiments) |-> view.table.avgs[k][i][metric]]

CellMarks(k, metric) == view.table.classes[k][metric]

\* The first experiment with the greatest value.
FirstGreatest(vals) ==
  CHOOSE i \in 1..Len(vals) :
    \A j \in 1..Len(vals) : RLe(vals[j], vals[i]) /\ (vals[j] = vals[i] => i <= j)

\* The first experiment with the least value above 0, if any value is.
FirstLeastPositive(vals) ==
  CHOOSE i \in 1..Len(vals) :
    /\ RLt(Num(0), vals[i])
    /\ \A j \in 1..Len(vals) :
         RLt(Num(0), vals[j]) => RLe(vals[i], vals[j]) /\ (vals[j] = vals[i] => i <= j)

\* C17: in every column group of the table, the row of
\* avg_compression_percent marks the (first) experiment with the greatest
\* value best and the others other; each of the three broadcast rows marks
\* the (first) experiment with the least value above 0 best and the others
\* other, and nothing when no value is above 0; no other row marks a cell
\* best or other.
BestCellsMarked ==
  pc = "ready" =>
    \A k \in Range(view.table.columns) : \A metric \in DOMAIN view.table.classes[k] :
      LET vals == CellValues(k, metric)
          marks == CellMarks(k, metric)
      IN  IF metric = "avg_compression_percent"
          THEN \A i \in 1..Len(vals) :
                 marks[i] = IF i = FirstGreatest(vals) THEN "best-cell" ELSE "other-cell"
          ELSE IF metric \in {"avg_broadcast_time_avg_s", "avg_broadcast_time_full_s",
                              "avg_broadcast_time_66p_s"}
          THEN IF \A i \in 1..Len(vals) : ~RLt(Num(0), vals[i])
               THEN \A i \in 1..Len(vals) : marks[i] = ""
               ELSE \A i \in 1..Len(vals) :
                      marks[i] = IF i = FirstLeastPositive(vals) THEN "best-cell"
                                 ELSE "other-cell"
          ELSE \A i \in 1..Len(vals) : marks[i] \notin {"best-cell", "other-cell"}

\* In one column group the first experiment has the greater compression
\* percent and is marked best, and its broadcast time of 0 is marked other
\* beside the second experiment's positive one.
ZeroBroadcastIsNotBest ==
  /\ pc = "ready"
  /\ Len(experiments) = 2
  /\ \E k \in Range(view.table.columns) :
       /\ RLt(CellValues(k, "avg_compression_percent")[2],
              CellValues(k, "avg_compression_percent")[1])
       /\ CellMarks(k, "avg_compression_percent") = <<"best-cell", "other-cell">>
       /\ CellValues(k, "avg_broadcast_time_full_s")[1] = Num(0)
       /\ RLt(Num(0), CellValues(k, "avg_broadcast_time_full_s")[2])
       /\ CellMarks(k, "avg_broadcast_time_full_s") = <<"other-cell", "best-cell">>
       /\ CellMarks(k, "avg_block_size_bytes") = <<"", "">>

ViewsCurrent ==
  /\ view.table = rebuildAveragesTable(plots, minBlockSizeBytes, rangeMinT, rangeMaxT)
  /\ view.blocksList = renderBlocksList(BlocksData, FilterState)
  /\ \A k \in Range(plots.unionKeys) :
       Drawn(k) => view.charts[k] = <<Chart(plots.plotsData[k], FilterState)>>
  /\ view.timeline = <<rangeMinT, rangeMaxT>>

RecordsOfBlock(payload, b) ==
  SelectSeq(CompleteRecords(payload), LAMBDA x : x.block_id = b)

EntriesOfBlock(st, b) == SelectSeq(st.blocks, LAMBDA e : e.block_id = b)

\* C21: for every experiment, every block id with at least one decoded
\* record has exactly one entry in the block index, starting at the least
\* record start and ending at the greatest record end, both counted from the
\* experiment's time origin, with duration end - start; a block id without a
\* decoded record has no entry.
BlockIndexSpansRecords ==
  \A i \in 1..Len(stats) :
    /\ ~stats[i].hasBlocks => stats[i].blocks = <<>>
    /\ stats[i].hasBlocks =>
         /\ \A m \in 1..Len(stats[i].blocks) :
              stats[i].blocks[m].block_id \in PayloadBlockIds(experiments[i].payload)
         /\ \A b \in PayloadBlockIds(experiments[i].payload) :
              LET payload == experiments[i].payload
                  recs == RecordsOfBlock(payload, b)
                  entries == EntriesOfBlock(stats[i], b)
                  first == RMin([j \in 1..Len(recs) |-> StartInstant(payload, recs[j].rec)])
                  last == RMax([j \in 1..Len(recs) |-> EndInstant(payload, recs[j].rec)])
              IN  IF recs = <<>> THEN entries = <<>>
                  ELSE /\ Len(entries) = 1
                       /\ entries[1].start_sec = RSub(first, TimeOrigin(payload))
                       /\ entries[1].end_sec = RSub(last, TimeOrigin(payload))
                       /\ entries[1].duration_sec = RSub(entries[1].end_sec, entries[1].start_sec)

\* Of two block entries of the payload the second has no record and the
\* first has three, of which the one starting last ends first: the index
\* holds the first block alone, lasting from 0 to 4.
IndexOfOneBlockOfTwo ==
  /\ pc = "ready"
  /\ Len(experiments[1].payload.blocks) = 2
  /\ Len(experiments[1].payload.blocks[1].records) = 3
  /\ experiments[1].payload.blocks[2].records = <<>>
  /\ Len(stats[1].blocks) = 1
  /\ stats[1].blocks[1].start_sec = Num(0)
  /\ stats[1].blocks[1].end_sec = Num(4)
  /\ stats[1].blocks[1].duration_sec = Num(4)
  /\ stats[1].blocks[1].records[3].end_sec = Num(1)

\* C22: for every block of BLOCKS_DATA and every signature (type, origin)
\* among the block's records, signature_durations holds under that signature
\* the greatest end minus the least start of exactly the block's records of
\* that signature when this is not negative, and nothing when it is; a
\* signature without a record in the block has no entry.
SignatureDurationsSpanOwnRecords ==
  \A i \in 1..Len(stats) :
    LET payload == experiments[i].payload
        data == buildBlocksData(<<Named(experiments, stats)[i]>>)
    IN  \A n \in 1..Len(data) :
          LET b == data[n].block_id
              own == RecordsOfBlock(payload, b)
              keys == {CategoryKey(payload, own[j].rec) : j \in 1..Len(own)}
          IN  /\ \A m \in 1..Len(data[n].signature_durations) :
                   data[n].signature_durations[m][1] \in keys
              /\ \A k \in keys :
                   LET recs == InCategory(payload, k, b)
                       first == RMin([j \in 1..Len(recs) |->
                                        StartInstant(payload, recs[j].rec)])
                       last == RMax([j \in 1..Len(recs) |->
                                       EndInstant(payload, recs[j].rec)])
                       entered == SelectSeq(data[n].signature_durations,
                                            LAMBDA e : e[1] = k)
                   IN  IF RLe(first, last) THEN entered = << <<k, RSub(last, first)>> >>
                       ELSE entered = <<>>

\* A block with three records of two signatures: the two records of one
\* signature span 2 seconds, the record of the other ends before it starts,
\* and signature_durations holds the first signature alone.
OneSignatureOfTwoEntered ==
  /\ pc = "ready"
  /\ Len(stats[1].blocks) = 1
  /\ Len(stats[1].blocks[1].records) = 3
  /\ Len(stats[1].type_called_from_stats) = 2
  /\ \E k \in {stats[1].type_called_from_stats[n].key : n \in 1..2} :
       BlocksData[1].signature_durations = << <<k, Num(2)>> >>

\* C23: the key of a block in BLOCKS_DATA (experiment name and block id)
\* tells blocks apart globally: no two blocks of the loaded experiments have
\* the same key.
BlockKeysDistinct ==
  pc = "ready" =>
    \A m, n \in 1..Len(BlocksData) : m # n => BlocksData[m].key # BlocksData[n].key

\* Two different names of the query string whose blocks get the same key.
DifferentNamesShareAKey ==
  /\ pc = "ready"
  /\ experiments[1].name # experiments[2].name
  /\ \E m, n \in 1..Len(BlocksData) : m # n /\ BlocksData[m].key = BlocksData[n].key

(***************************************************************************)
(* Properties of the sizes and of the broadcast points of a block.         *)
(***************************************************************************)
\* The first positive original and compressed size among records in the
\* order given: <<size>>, or <<>> when there is none.
FirstOriginal(recs) ==
  LET sel == SelectSeq(recs, LAMBDA x : x.size # <<>> /\ x.size[1][1] # <<>>
                                          /\ x.size[1][1][1] > 0)
  IN  IF sel = <<>> THEN <<>> ELSE sel[1].size[1][1]

FirstCompressed(recs) ==
  LET sel == SelectSeq(recs, LAMBDA x : x.size # <<>> /\ x.size[1][2] # <<>>
                                          /\ x.size[1][2][1] > 0)
  IN  IF sel = <<>> THEN <<>> ELSE sel[1].size[1][2]

\* C24: for every category and block with a block_size point, the value of
\* the point is the first positive original size among the block's records
\* of the category in the order of the payload, and the compression_percent
\* value is computed from it and from the first positive compressed size in
\* that order.
SizesFirstSeenInPayloadOrder ==
  \A i \in 1..Len(stats) : \A n \in 1..Len(stats[i].type_called_from_stats) :
    \A b \in PayloadBlockIds(experiments[i].payload) :
      LET c == stats[i].type_called_from_stats[n]
          recs == InCategory(experiments[i].payload, c.key, b)
          o == FirstOriginal(recs)
          z == FirstCompressed(recs)
      IN  PointsOf(c, "block_size", b) # <<>> =>
            /\ o # <<>>
            /\ z # <<>>
            /\ PointsOf(c, "block_size", b)[1][2] = Num(o[1])
            /\ PointsOf(c, "compression_percent", b)[1][2] = RDiv(Num(o[1] - z[1]), Num(o[1]))

\* The records of a list in ascending order of their start, records of
\* equal start in the order given.
ByStart(payload, recs) ==
  LET sorted == StableSortKeyed([j \in 1..Len(recs) |->
                                   <<StartInstant(payload, recs[j].rec), recs[j]>>])
  IN  [j \in 1..Len(recs) |-> sorted[j][2]]

\* What the code does instead: the sizes are the first positive ones among
\* the block's records of the category in ascending order of their start.
SizesFirstSeenInStartOrder ==
  \A i \in 1..Len(stats) : \A n \in 1..Len(stats[i].type_called_from_stats) :
    \A b \in PayloadBlockIds(experiments[i].payload) :
      LET c == stats[i].type_called_from_stats[n]
          recs == ByStart(experiments[i].payload,
                          InCategory(experiments[i].payload, c.key, b))
          o == FirstOriginal(recs)
          z == FirstCompressed(recs)
      IN  PointsOf(c, "block_size", b) # <<>> =>
            /\ o # <<>>
            /\ z # <<>>
            /\ PointsOf(c, "block_size", b)[1][2] = Num(o[1])
            /\ PointsOf(c, "compression_percent", b)[1][2] = RDiv(Num(o[1] - z[1]), Num(o[1]))

ErrorStatusStays ==
  pc = "fetch failed" => (status.visible /\ status.state = "error")

(***************************************************************************)
(* Properties of the tabs.                                                 *)
(***************************************************************************)
\* C29: in every state reached by clicks on chart tabs, clicks on blocks
\* tabs and changes of the filter, the button of the blocks tabs that is
\* marked active is exactly the one whose key is BLOCKS_FILTER_KEY, the key
\* the blocks list is drawn with; activating a chart tab changes no mark of
\* the blocks tabs.
BlocksTabMarkIsFilterKey ==
  pc = "ready" =>
    /\ \A k \in Range(view.blocksTabs.keys) :
         k \in view.blocksTabs.active <=> k = blocksFilterKey
    /\ view.blocksList = renderBlocksList(BlocksData, FilterState)

\* The blocks list is that of BLOCKS_FILTER_KEY "all", the chart tab of a
\* category has been clicked, and the blocks tab marked active is that of
\* the category.
ChartTabClickMarksBlocksTab ==
  /\ pc = "ready"
  /\ blocksFilterKey = AllKey
  /\ activeTab # <<>>
  /\ activeTab[1] # plots.unionKeys[1]
  /\ view.blocksTabs.active = {activeTab[1]}
  /\ view.blocksList = renderBlocksList(BlocksData, FilterState)

\* The visible categories of the present threshold, and whether the size
\* filter hides category k: it has sized blocks, none of them large enough.
VisibleNow == getVisibleUnionKeys(plots, minBlockSizeBytes)

HiddenBySizeFilter(k) ==
  /\ hasBlocksAfterSizeFilter(plots.plotsData[k], 0)
  /\ ~hasBlocksAfterSizeFilter(plots.plotsData[k], minBlockSizeBytes)

\* A step with rebuildAll: the size threshold is set, a handle is released,
\* or the track is clicked.
RebuildStep ==
  /\ pc = "ready"
  /\ \/ minBlockSizeBytes' # minBlockSizeBytes
     \/ dragging # <<>> /\ dragging' = <<>>
     \/ dragging = <<>> /\ <<rangeMinT, rangeMaxT>>' # <<rangeMinT, rangeMaxT>>

\* C28: after every rebuildAll (a change of the size threshold, the end of a
\* drag, a click on the track) the active chart tab is a visible category
\* if there is one; and in no state is a category that the size filter
\* hides the active chart tab while another category is visible.
ActiveTabVisibleAfterRebuild ==
  /\ [][RebuildStep =>
          (VisibleNow' # <<>> => (activeTab' # <<>> /\ activeTab'[1] \in Range(VisibleNow')))]_vars
  /\ [](pc = "ready" =>
          \A k \in Range(plots.unionKeys) :
            (activeTab = <<k>> /\ HiddenBySizeFilter(k)) => VisibleNow = <<>>)

\* Of two categories the second was active and its chart drawn; the size
\* filter hides it now, and the first category is the active tab.
ActiveTabLeftHiddenCategory ==
  /\ pc = "ready"
  /\ Len(plots.unionKeys) = 2
  /\ view.charts[plots.unionKeys[2]] # <<>>
  /\ HiddenBySizeFilter(plots.unionKeys[2])
  /\ VisibleNow = <<plots.unionKeys[1]>>
  /\ activeTab = <<plots.unionKeys[1]>>
  /\ view.tabs = VisibleNow

(***************************************************************************)
(* Properties of the time window.                                          *)
(***************************************************************************)
\* globalMinT <= rangeMinT <= rangeMaxT <= globalMaxT.
WindowInside(global) ==
  /\ RLe(global[1], rangeMinT)
  /\ RLe(rangeMinT, rangeMaxT)
  /\ RLe(rangeMaxT, global[2])

\* C26: in every state that drags of the handles and clicks on the track
\* reach after initialisation, globalMinT <= rangeMinT <= rangeMaxT <=
\* globalMaxT, also when the observed range is shorter than one second or a
\* single point; as long as nothing was dragged or clicked the window is the
\* whole range.
WindowWithinGlobalRange ==
  /\ [][(pc = "loading" /\ pc' = "ready") =>
          <<rangeMinT, rangeMaxT>>' = computeGlobalTimeRange(plots')]_vars
  /\ [](pc = "ready" => WindowInside(computeGlobalTimeRange(plots)))

\* What the code keeps: the window is inside the global range when that
\* range lasts a second or more.
WindowWithinWideRange ==
  LET global == computeGlobalTimeRange(plots)
  IN  (pc = "ready" /\ RLe(Num(1), RSub(global[2], global[1]))) => WindowInside(global)

====
